---- MODULE Spec2Model ----
(***************************************************************************)
(* Response-orchestration engine of faithful: the per-conversation         *)
(* debounced response tasks of the chat cog (cogs/chat.py), the bounded    *)
(* tool loop of the generation backends (backends/base.py and the provider *)
(* adapters) and the tool executor (tools.py).                             *)
(*                                                                         *)
(* The specifications of this module:                                      *)
(*   Spec      the debounce scheduler: asyncio tasks, the _pending map     *)
(*   SpecPair  the same, for at most MaxPair qualifying triggers           *)
(*   SpecLive  the same, on runs where platform and provider calls return, *)
(*             with the fairness of the event loop                         *)
(*   SpecGen   one Backend.generate call, round by round                   *)
(*   SpecTool  ToolExecutor.execute on one tool call                       *)
(*   SpecNorm  AnthropicBackend._normalize_messages on one sequence        *)
(*   SpecSample  MessageStore.get_sampled_messages on one store            *)
(*   SpecStore   MessageStore add_messages, remove_message, clear_messages *)
(*   SpecClear   the debounce scheduler while the corpus can be cleared    *)
(*   SpecChunk   chunk_response on one text                                *)
(*   SpecReact   extract_reactions on one text                             *)
(*   SpecSend    send_chunked on one reply                                 *)
(*   SpecMemory  MemoryStore add, remove, clear on one memory file         *)
(***************************************************************************)
EXTENDS Integers, Sequences, FiniteSets, TLC

\* ------------------------------------------------------------------ bounds
MaxTasks == 3          \* qualifying triggers (tasks ever created) under Spec
MaxPair == 2           \* qualifying triggers under SpecPair and SpecLive
NumConvs == 2          \* conversations (channel ids)

Convs == 1..NumConvs
TaskIds == 1..MaxTasks

VARIABLES
  \* ---- cogs/chat.py: Chat
  pending,      \* Chat._pending: conversation -> task id (0: no entry)
  tasks,        \* the asyncio tasks running Chat._debounced_respond
  history,      \* per channel, the number of messages the platform holds
  burst,        \* per channel: every trigger so far arrived while the task of
                \* the previous trigger was still in its debounce interval
  budget,       \* the number of qualifying triggers the run may see
  \* ---- backends: one Backend.generate call
  backend,      \* the configured adapter (backends/__init__.py _BACKENDS)
  config,       \* enable_web_search; memory: enable_memory and a memory store
  request,      \* the GenerationRequest
  messages,     \* the message list of generate / _generate_with_tools
  attachments,  \* the local attachments of _generate_with_tools (0: None)
  gpc,          \* where the generate coroutine is suspended
  round,        \* the iteration of range(MAX_TOOL_ROUNDS), from 1
  tool_calls,   \* the tool calls returned by the current round
  idx,          \* the position in tool_calls of the call being executed
  calls,        \* the provider calls made so far: their outgoing payloads
  response,     \* what the last provider call that returned gave back (the
                \* text of a response with tool calls is never read)
  returned,     \* per finished round, the tool calls the provider returned
  executed,     \* the tool executions so far, in execution order
  result,       \* what generate returned
  toolenv,      \* what the tools meet: duckduckgo import, search outcome, ...
  \* ---- anthropic_backend.py: one _normalize_messages call
  norm,         \* its argument (messages), its result (normalized), its pc
  \* ---- store.py: MessageStore and one get_sampled_messages call
  message_store, \* _messages with _source_map: per position, path and text
  sampler,      \* the locals of get_sampled_messages and its pc
  data_dir,     \* the .txt files of config.data_dir: per file, its lines
  store_call,   \* the last MessageStore operation: what it returned, and the
                \* listed messages before it
  \* ---- chunker.py: one chunk_response call, one extract_reactions call
  chunker,      \* its argument (text), its result (chunks), its pc
  extractor,    \* its argument (text), its results (clean, reactions), its pc
  sender,       \* one send_chunked call: its chunks and reactions, its pc,
                \* and the platform calls it has made (log)
  \* ---- memory.py: MemoryStore, one user file or one channel file
  memory_file   \* the stored list, in insertion order

chatVars == <<pending, tasks, history, burst, budget>>
genVars == <<backend, config, request, messages, attachments, gpc, round,
             tool_calls, idx, calls, response, returned, executed, result,
             toolenv>>
libVars == <<data_dir, store_call, chunker, extractor, sender, memory_file>>
pureVars == <<norm, message_store, sampler, data_dir, store_call, chunker,
              extractor, sender, memory_file>>
vars == <<pending, tasks, history, burst, budget,
          backend, config, request, messages, attachments, gpc, round,
          tool_calls, idx, calls, response, returned, executed, result,
          toolenv, norm, message_store, sampler, data_dir, store_call,
          chunker, extractor, sender, memory_file>>

\* ------------------------------------------------------------ asyncio task
\* A task that was never created.
NoTask ==
  [conv |-> 0, pc |-> "none", cancel |-> FALSE, cancelledAt |-> "none",
   superseded |-> FALSE, trig |-> 0, req |-> 0, gens |-> 0, resp |-> "none",
   sent |-> "none", reacted |-> FALSE, marked |-> FALSE, err |-> FALSE]

\* asyncio.Task.done()
Done(t) == tasks[t].pc \in {"none", "done"}

Created(t) == tasks[t].pc # "none"

\* The number of tasks created so far; ids are given out in creation order.
NumCreated == Cardinality({t \in TaskIds : Created(t)})

\* The awaits of _debounced_respond that lie inside its try block: the
\* suspension points at which asyncio throws CancelledError into the coroutine.
CancelPointsSleepOnly == {"sleep"}

CancelPointsNoSleep == {"build", "generate", "send", "react", "warn"}

CancelPoints == {"sleep", "build", "generate", "send", "react", "warn"}

ProceedNever(t) == FALSE

\* Task.__step: a requested cancellation is thrown into the coroutine at its
\* current await instead of the awaited result.
CanProceed(t) ==
  ~(tasks[t].cancel /\ tasks[t].pc \in CancelPoints)

PopNothing(p, c, t) == p

\* finally: self._pending.pop(channel_id, None)   -- by channel id alone
PopPending(p, c, t) == [p EXCEPT ![c] = 0]

Finish(t, rec) ==
  /\ tasks' = [tasks EXCEPT ![t] = [rec EXCEPT !.pc = "done"]]
  /\ pending' = PopPending(pending, tasks[t].conv, t)

\* ------------------------------------------------------------- on_message
\* existing.cancel() when there is an entry whose task is not done
CancelNever(ts, e) == ts

CancelEvery(ts, e) ==
  [t \in TaskIds |->
     IF ts[t].pc \notin {"none", "done"}
     THEN [ts[t] EXCEPT !.cancel = TRUE,
                        !.cancelledAt = IF ts[t].cancel THEN ts[t].cancelledAt ELSE ts[t].pc]
     ELSE ts[t]]

CancelExisting(ts, e) ==
  IF e # 0 /\ ts[e].pc \notin {"none", "done"}
  THEN [ts EXCEPT ![e].cancel = TRUE,
                  ![e].cancelledAt =
                     IF ts[e].cancel THEN ts[e].cancelledAt ELSE ts[e].pc]
  ELSE ts

\* A newer qualifying trigger supersedes every task of the conversation that
\* has not finished (bookkeeping for the claims; no code reads it).
Supersede(ts, c) ==
  [t \in TaskIds |->
     IF ts[t].conv = c /\ ts[t].pc \notin {"none", "done"}
     THEN [ts[t] EXCEPT !.superseded = TRUE] ELSE ts[t]]

\* The task of the latest trigger of conversation c (0: none yet).
LastTask(c) ==
  LET S == {t \in TaskIds : tasks[t].conv = c}
  IN IF S = {} THEN 0 ELSE CHOOSE t \in S : \A u \in S : u <= t

InDebounce(t) == tasks[t].pc \in {"new", "sleep"}

\* on_message, the qualifying path (store.count is not 0 at line 117, then
\* lines 144-152): no await in it, so it is one step of the event loop.
OnMessage(c) ==
  /\ message_store # <<>>
  /\ NumCreated < budget
  /\ LET t == NumCreated + 1
         existing == pending[c]
         prev == LastTask(c)
         cancelled == CancelExisting(Supersede(tasks, c), existing)
     IN /\ history' = [history EXCEPT ![c] = @ + 1]
        /\ tasks' = [cancelled EXCEPT ![t] =
                       [NoTask EXCEPT !.conv = c, !.pc = "new",
                                      !.trig = history[c] + 1]]
        /\ pending' = [pending EXCEPT ![c] = t]
        /\ burst' = [burst EXCEPT ![c] = @ /\ (prev = 0 \/ InDebounce(prev))]
  /\ UNCHANGED <<budget, genVars, pureVars>>

\* ----------------------------------------------------- _debounced_respond
TaskStartNoSleep(t) ==
  /\ tasks[t].pc = "new"
  /\ tasks' = [tasks EXCEPT ![t].pc = "build"]
  /\ UNCHANGED <<pending, history, burst, budget, genVars, pureVars>>

\* First step of the task. A task cancelled before its first step gets the
\* CancelledError thrown at the start of the coroutine: the try block is never
\* entered and the finally clause does not run.
TaskStart(t) ==
  /\ tasks[t].pc = "new"
  /\ IF tasks[t].cancel
     THEN tasks' = [tasks EXCEPT ![t].pc = "done"]
     ELSE tasks' = [tasks EXCEPT ![t].pc = "sleep"]
  /\ UNCHANGED <<pending, history, burst, budget, genVars, pureVars>>

\* async with channel.typing(): entering it raises (the typing request
\* fails): except Exception: log.exception
TypingFail(t) ==
  /\ tasks[t].pc = "new"
  /\ ~tasks[t].cancel
  /\ tasks' = [tasks EXCEPT ![t] = [tasks[t] EXCEPT !.pc = "done", !.err = TRUE]]
  /\ pending' = PopPending(pending, tasks[t].conv, t)
  /\ UNCHANGED <<history, burst, budget, genVars, pureVars>>

\* except asyncio.CancelledError: return; finally: pop
TaskCancelled(t) ==
  /\ tasks[t].pc \in CancelPoints
  /\ tasks[t].cancel
  /\ Finish(t, tasks[t])
  /\ UNCHANGED <<history, burst, budget, genVars, pureVars>>

\* await asyncio.sleep(debounce_delay) returns
SleepDone(t) ==
  /\ tasks[t].pc = "sleep"
  /\ CanProceed(t)
  /\ tasks' = [tasks EXCEPT ![t].pc = "build"]
  /\ UNCHANGED <<pending, history, burst, budget, genVars, pureVars>>

\* build_request: the channel history is read now
ReadState(t) == history[tasks[t].conv]

\* build_request returns and backend.generate(request) is called
BuildDone(t) ==
  /\ tasks[t].pc = "build"
  /\ CanProceed(t)
  /\ tasks' = [tasks EXCEPT ![t].pc = "generate", ![t].req = ReadState(t),
                            ![t].gens = @ + 1]
  /\ UNCHANGED <<pending, history, burst, budget, genVars, pureVars>>

\* build_request raises: except Exception: log.exception
BuildFail(t) ==
  /\ tasks[t].pc = "build"
  /\ CanProceed(t)
  /\ Finish(t, [tasks[t] EXCEPT !.err = TRUE])
  /\ UNCHANGED <<history, burst, budget, genVars, pureVars>>

\* backend.generate returns a non-empty response: send_chunked starts with
\* the chunks of the clean text (chunks: there is at least one) and then the
\* reactions (reacts: there is at least one and a react target).
GenText(t, chunks, reacts) ==
  /\ tasks[t].pc = "generate"
  /\ CanProceed(t)
  /\ LET rec == [tasks[t] EXCEPT !.resp = "text"]
     IN IF chunks
        THEN tasks' = [tasks EXCEPT ![t] = [rec EXCEPT !.pc = "send"]] /\ UNCHANGED pending
        ELSE IF reacts
        THEN tasks' = [tasks EXCEPT ![t] = [rec EXCEPT !.pc = "react"]] /\ UNCHANGED pending
        ELSE Finish(t, rec)
  /\ UNCHANGED <<history, burst, budget, genVars, pureVars>>

\* backend.generate returns "": the warning reaction on the prompt message,
\* when there is one (prompt)
GenEmpty(t, prompt) ==
  /\ tasks[t].pc = "generate"
  /\ CanProceed(t)
  /\ LET rec == [tasks[t] EXCEPT !.resp = "empty"]
     IN IF prompt
        THEN tasks' = [tasks EXCEPT ![t] = [rec EXCEPT !.pc = "warn"]] /\ UNCHANGED pending
        ELSE Finish(t, rec)
  /\ UNCHANGED <<history, burst, budget, genVars, pureVars>>

\* backend.generate raises: except Exception: log.exception
GenFail(t) ==
  /\ tasks[t].pc = "generate"
  /\ CanProceed(t)
  /\ Finish(t, [tasks[t] EXCEPT !.resp = "error", !.err = TRUE])
  /\ UNCHANGED <<history, burst, budget, genVars, pureVars>>

\* send_chunked: typing, sleep(typing_delay), channel.send(chunk); last: this
\* was the last chunk; reacts: reactions follow it.
SendChunk(t, last, reacts) ==
  /\ tasks[t].pc = "send"
  /\ CanProceed(t)
  /\ IF ~last
     THEN tasks' = [tasks EXCEPT ![t].sent = "part"] /\ UNCHANGED pending
     ELSE LET rec == [tasks[t] EXCEPT !.sent = "all"]
          IN IF reacts
             THEN tasks' = [tasks EXCEPT ![t] = [rec EXCEPT !.pc = "react"]] /\ UNCHANGED pending
             ELSE Finish(t, rec)
  /\ UNCHANGED <<history, burst, budget, genVars, pureVars>>

\* channel.send raises: the exception leaves send_chunked
SendFail(t) ==
  /\ tasks[t].pc = "send"
  /\ CanProceed(t)
  /\ Finish(t, [tasks[t] EXCEPT !.err = TRUE])
  /\ UNCHANGED <<history, burst, budget, genVars, pureVars>>

\* send_chunked: react_target.add_reaction(emoji) returns (ok) or raises a
\* DiscordException, which is swallowed; last: this was the last reaction.
React(t, ok, last) ==
  /\ tasks[t].pc = "react"
  /\ CanProceed(t)
  /\ LET rec == [tasks[t] EXCEPT !.reacted = @ \/ ok]
     IN IF ~last
        THEN tasks' = [tasks EXCEPT ![t] = rec] /\ UNCHANGED pending
        ELSE Finish(t, rec)
  /\ UNCHANGED <<history, burst, budget, genVars, pureVars>>

\* prompt_msg.add_reaction(warning) returns (ok), or raises a
\* DiscordException, which is swallowed
Warn(t, ok) ==
  /\ tasks[t].pc = "warn"
  /\ CanProceed(t)
  /\ Finish(t, [tasks[t] EXCEPT !.marked = ok])
  /\ UNCHANGED <<history, burst, budget, genVars, pureVars>>

\* One step of task t on runs where the platform and provider calls return.
TaskStep(t) ==
  \/ TaskStart(t)
  \/ TaskCancelled(t)
  \/ SleepDone(t)
  \/ BuildDone(t)
  \/ \E chunks \in BOOLEAN, reacts \in BOOLEAN : GenText(t, chunks, reacts)
  \/ \E prompt \in BOOLEAN : GenEmpty(t, prompt)
  \/ \E last \in BOOLEAN, reacts \in BOOLEAN : SendChunk(t, last, reacts)
  \/ \E ok \in BOOLEAN, last \in BOOLEAN : React(t, ok, last)
  \/ \E ok \in BOOLEAN : Warn(t, ok)

\* ================================================================ backends
MAX_TOOL_ROUNDS == 5

MaxCalls == 2          \* tool calls the provider returns in one round
MaxAtt == 1            \* attachments of a request

\* backends/__init__.py: _BACKENDS
Backends == {"ollama", "openai", "openai-compatible", "gemini", "anthropic"}

\* The adapters that derive from BaseLLMBackend (llm.py); ollama.py and
\* openai_compat.py derive from Backend (base.py).
LLMBackends == {"openai", "gemini", "anthropic"}

\* _has_native_search = True
HasNativeSearch(b) == b \in {"openai", "anthropic"}

\* Text is a sequence of lines: "a\nb" is <<"a", "b">> and "" is <<"">>.
SPONTANEOUS_PROMPT == <<"Say something in the chat.">>

Missing == "<missing>"          \* the key is not in the argument dict
NonString == "<non-string>"     \* a JSON value that is not a string

NoArgs ==
  [isdict |-> TRUE, query |-> Missing, user_name |-> Missing,
   fact |-> Missing, memory |-> Missing]

\* base.py: ToolCall
NoCall == [id |-> "", name |-> "", args |-> NoArgs]

\* The string execute returns: a JSON object with an "error" key (kind
\* "error") or without one (kind "ok"); kind "raise": no string, an exception.
ToolResult(kind, msg, arg) == [kind |-> kind, msg |-> msg, arg |-> arg]

NoResult == ToolResult("", "", "")

\* One entry of a message list. kind "text": content is a plain string;
\* "blocks": content is a list of blocks (images and text); "tool_use" and
\* "tool_result": the adapter's form of a tool call and of its result.
\* images: the attachment data the entry carries.
Msg(role, kind, text) ==
  [role |-> role, kind |-> kind, text |-> text, call |-> NoCall,
   callid |-> "", result |-> NoResult, images |-> 0]

\* ------------------------------------------------------------- tools.py
\* args.get(key, "")
Get(args, key) == IF args[key] = Missing THEN "" ELSE args[key]

\* `not v`
Falsy(v) == v = ""

\* str.lower() on the names the model uses
Lower(s) == IF s \in {"Alice", "ALICE"} THEN "alice" ELSE s

\* ToolExecutor._web_search
WebSearch(query, env) ==
  IF Falsy(query) THEN ToolResult("error", "Empty search query.", "")
  ELSE IF ~env.ddg THEN ToolResult("error", "Web search unavailable", "")
  ELSE IF env.search = "raises" THEN ToolResult("error", "Search failed", "")
  ELSE IF env.search = "empty" THEN ToolResult("ok", "No results found.", query)
  ELSE ToolResult("ok", "results", query)

\* ToolExecutor._remember_user
RememberUser(user_name, fact, store, participants, env) ==
  IF ~store THEN ToolResult("error", "Memory is not enabled.", "")
  ELSE IF Falsy(user_name) \/ Falsy(fact)
  THEN ToolResult("error", "Both user_name and fact are required.", "")
  ELSE IF participants # {} /\ user_name = NonString
  THEN ToolResult("raise", "AttributeError", "")
  ELSE IF Lower(user_name) \notin {Lower(n) : n \in participants}
  THEN ToolResult("error", "Could not find user", user_name)
  ELSE IF env.fault THEN ToolResult("raise", "memory store", "")
  ELSE ToolResult("ok", "Remembered about", fact)

\* ToolExecutor._remember_channel
RememberChannel(memory, store, env) ==
  IF ~store THEN ToolResult("error", "Memory is not enabled.", "")
  ELSE IF Falsy(memory) THEN ToolResult("error", "Memory text is required.", "")
  ELSE IF env.fault THEN ToolResult("raise", "memory store", "")
  ELSE ToolResult("ok", "Remembered for this channel", memory)

KnownTools == {"web_search", "remember_user", "remember_channel"}

\* The body of the try block of ToolExecutor.execute
Dispatch(name, args, store, participants, env) ==
  IF name \in KnownTools /\ ~args.isdict
  THEN ToolResult("raise", "AttributeError", "")
  ELSE IF name = "web_search" THEN WebSearch(Get(args, "query"), env)
  ELSE IF name = "remember_user"
  THEN RememberUser(Get(args, "user_name"), Get(args, "fact"), store, participants, env)
  ELSE IF name = "remember_channel"
  THEN RememberChannel(Get(args, "memory"), store, env)
  ELSE ToolResult("error", "Unknown tool", name)

ExecuteNoCatch(name, args, store, participants, env) ==
  Dispatch(name, args, store, participants, env)

\* ToolExecutor.execute: except Exception as e: return {"error": str(e)}
Execute(name, args, store, participants, env) ==
  LET r == Dispatch(name, args, store, participants, env)
  IN IF r.kind = "raise" THEN ToolResult("error", r.msg, "") ELSE r

\* ------------------------------------------------------ provider adapters
\* Backend._get_active_tools (base.py) and its override in llm.py, which
\* does not look at _has_native_search.
ActiveTools(b, cfg) ==
  (IF cfg.enable_web_search /\ (b \in LLMBackends \/ ~HasNativeSearch(b))
   THEN <<"web_search">> ELSE <<>>)
  \o (IF cfg.memory THEN <<"remember_user", "remember_channel">> ELSE <<>>)

Tool(type, name) == [type |-> type, name |-> name]

\* The server-side search tool the adapter adds on its own
NativeSearchTool(b, cfg) ==
  IF ~cfg.enable_web_search THEN <<>>
  ELSE IF b = "anthropic" THEN <<Tool("web_search_20250305", "web_search")>>
  ELSE IF b = "openai" THEN <<Tool("web_search_preview", "")>>
  ELSE <<>>

\* _format_tools
FormatTools(b, cfg, tools) ==
  NativeSearchTool(b, cfg) \o [i \in 1..Len(tools) |-> Tool("function", tools[i])]

MergeNever(msgs, merged) == merged \o msgs

\* A merge loop that appends the message after a merge without comparing it
RECURSIVE MergePairs(_, _)
MergePairs(msgs, merged) ==
  IF msgs = <<>> THEN merged
  ELSE LET msg == Head(msgs)
           n == Len(merged)
           rest == Tail(msgs)
       IN IF n > 0 /\ merged[n].role = msg.role
             /\ merged[n].kind = "text" /\ msg.kind = "text"
          THEN LET joined == [merged EXCEPT ![n].text = merged[n].text \o msg.text]
               IN IF rest = <<>> THEN joined
                  ELSE MergePairs(Tail(rest), Append(joined, Head(rest)))
          ELSE MergePairs(rest, Append(merged, msg))

\* AnthropicBackend._normalize_messages: the merge loop
RECURSIVE MergeTurns(_, _)
MergeTurns(msgs, merged) ==
  IF msgs = <<>> THEN merged
  ELSE LET msg == Head(msgs)
           n == Len(merged)
       IN IF n > 0 /\ merged[n].role = msg.role
             /\ merged[n].kind = "text" /\ msg.kind = "text"
          THEN MergeTurns(Tail(msgs),
                 [merged EXCEPT ![n].text = merged[n].text \o msg.text])
          ELSE MergeTurns(Tail(msgs), Append(merged, msg))

NormalizeKeepLeading(msgs) == MergeTurns(msgs, <<>>)

\* AnthropicBackend._normalize_messages
NormalizeMessages(msgs) ==
  LET S == {i \in 1..Len(msgs) : msgs[i].role # "assistant"}
  IN IF S = {} THEN <<Msg("user", "text", SPONTANEOUS_PROMPT)>>
     ELSE LET start == CHOOSE i \in S : \A j \in S : i <= j
          IN MergeTurns(SubSeq(msgs, start, Len(msgs)), <<>>)

\* GeminiBackend._to_contents
ToContents(msgs) ==
  [i \in 1..Len(msgs) |->
     IF msgs[i].kind \in {"tool_use", "tool_result"} THEN msgs[i]
     ELSE [msgs[i] EXCEPT !.role = IF msgs[i].role = "assistant" THEN "model" ELSE "user"]]

\* The attachments put on the last entry of the outgoing list
WithAttachments(out, att) ==
  IF att = 0 THEN out
  ELSE LET last == out[Len(out)]
       IN [out EXCEPT ![Len(out)] =
             [Msg(last.role, "blocks",
                  IF last.kind = "text" THEN last.text ELSE <<"">>)
                EXCEPT !.images = att]]

\* The images written on the first entry of the list instead of the last
WithImagesOnFirst(out, att) ==
  IF att = 0 THEN out ELSE [out EXCEPT ![1].images = att]

\* ollama.py: last["images"] = [...] on the dict that full_messages shares
\* with the caller's list
WithImagesKey(out, att) ==
  IF att = 0 THEN out ELSE [out EXCEPT ![Len(out)].images = att]

\* The messages a call sends: _build_messages, _build_input, _to_contents,
\* _normalize_messages + _apply_attachments, and ollama's full_messages.
PayloadMessages(b, sys, msgs, att) ==
  IF b = "anthropic" THEN WithAttachments(NormalizeMessages(msgs), att)
  ELSE IF b = "gemini" THEN WithAttachments(ToContents(msgs), att)
  ELSE IF b = "ollama" THEN WithImagesKey(<<Msg("system", "text", sys)>> \o msgs, att)
  ELSE IF b = "openai" THEN WithAttachments(<<Msg("developer", "text", sys)>> \o msgs, att)
  ELSE WithAttachments(<<Msg("system", "text", sys)>> \o msgs, att)

\* The caller's list after the adapter built its payload from it: only
\* ollama.py writes to an entry it shares with the caller.
SharedEntries(b, msgs, att) ==
  IF b = "ollama" THEN WithImagesKey(msgs, att) ELSE msgs

RECURSIVE SumImages(_)
SumImages(out) == IF out = <<>> THEN 0 ELSE Head(out).images + SumImages(Tail(out))

\* One provider call, as sent. given: the list the adapter was handed.
Payload(kind, b, cfg, tools, msgs, att) ==
  LET out == PayloadMessages(b, <<"system prompt">>, msgs, att)
  IN [kind |-> kind, tools |-> tools, msgs |-> out, att |-> SumImages(out),
      given |-> msgs]

\* _call_with_tools ... tools=tools
ToolsPayload(b, cfg, msgs, att) ==
  Payload("tools", b, cfg, FormatTools(b, cfg, ActiveTools(b, cfg)), msgs, att)

\* _call_api: anthropic and openai add their native search tool
SinglePayload(b, cfg, msgs, att) ==
  Payload("single", b, cfg, NativeSearchTool(b, cfg), msgs, att)

\* _append_tool_result
AppendToolResult(b, msgs, call, res) ==
  LET use(role) == [Msg(role, "tool_use", <<>>) EXCEPT !.call = call, !.callid = call.id]
      out(role, id) == [Msg(role, "tool_result", <<>>) EXCEPT !.callid = id, !.result = res]
  IN IF b = "anthropic" THEN msgs \o <<use("assistant"), out("user", call.id)>>
     ELSE IF b = "openai-compatible" THEN msgs \o <<use("assistant"), out("tool", call.id)>>
     ELSE IF b = "openai" THEN msgs \o <<use(""), out("", call.id)>>
     ELSE IF b = "gemini" THEN msgs \o <<use("model"), out("user", call.name)>>
     ELSE msgs \o <<out("tool", "")>>

\* The identifiers the provider gives the calls of one response
ProviderIds == <<"call_1", "call_2", "call_3", "call_4">>

\* The calls of a response of n tool calls, as the provider orders them: two
\* calls of remember_channel with different texts, then a search, then a tool
\* the executor does not know.
ProviderCall(k) ==
  IF k = 1 THEN [name |-> "remember_channel", args |-> [NoArgs EXCEPT !.memory = "m1"]]
  ELSE IF k = 2 THEN [name |-> "remember_channel", args |-> [NoArgs EXCEPT !.memory = "m2"]]
  ELSE IF k = 3 THEN [name |-> "web_search", args |-> [NoArgs EXCEPT !.query = "q"]]
  ELSE [name |-> "lookup", args |-> NoArgs]

\* _call_with_tools: the ToolCall list parsed from the response. gemini and
\* ollama have no call ids and use the tool name.
ParseToolCalls(b, n) ==
  [k \in 1..n |->
     [id |-> IF b \in {"gemini", "ollama"} THEN ProviderCall(k).name ELSE ProviderIds[k],
      name |-> ProviderCall(k).name,
      args |-> ProviderCall(k).args]]

NoneText == "<None>"

Texts == {NoneText, "", " hi "}

KeepNone(text) == text

\* (text or "")
OrEmpty(text) == IF text = NoneText THEN "" ELSE text

StripNothing(text) == text

\* str.strip()
Strip(text) == IF text = " hi " THEN "hi" ELSE text

\* for call in tool_calls: the call taken at step i
ToolCallAtReversed(tcs, i) == tcs[Len(tcs) + 1 - i]

ToolCallAt(tcs, i) == tcs[i]

\* ------------------------------------------------------- Backend.generate
PromptOnly(req) == req.context \o <<Msg("user", "text", req.prompt)>>

\* generate: the initial message list (lines 110-117)
InitialMessages(req) ==
  req.context \o
    <<Msg("user", "text",
          IF req.prompt # <<"">> THEN req.prompt
          ELSE IF req.attachments > 0 THEN <<"">>
          ELSE SPONTANEOUS_PROMPT)>>

\* A provider call is made: the payload is logged and the caller's list is
\* what the adapter left of it.
IssueCall(kind, msgs, att) ==
  /\ calls' = Append(calls,
                IF kind = "tools" THEN ToolsPayload(backend, config, msgs, att)
                ELSE SinglePayload(backend, config, msgs, att))
  /\ messages' = SharedEntries(backend, msgs, att)

\* generate up to its first await
Generate ==
  /\ gpc = "idle"
  /\ LET msgs == InitialMessages(request)
     IN IF ActiveTools(backend, config) # <<>>
        THEN /\ attachments' = request.attachments
             /\ round' = 1
             /\ IssueCall("tools", msgs, request.attachments)
             /\ gpc' = "tools_call"
        ELSE /\ IssueCall("single", msgs, request.attachments)
             /\ gpc' = "single_call"
             /\ UNCHANGED <<attachments, round>>
  /\ UNCHANGED <<backend, config, request, tool_calls, idx, response, returned,
                 executed, result, toolenv, chatVars, pureVars>>

\* _call_with_tools returns (text, tool_calls)
ToolsReturn(text, n) ==
  /\ gpc = "tools_call"
  /\ attachments' = 0
  /\ response' = [kind |-> "tools", n |-> n,
                  text |-> IF n = 0 THEN text ELSE NoneText]
  /\ IF n = 0
     THEN /\ result' = Strip(OrEmpty(text))
          /\ gpc' = "returned"
          /\ UNCHANGED <<tool_calls, idx, returned>>
     ELSE /\ tool_calls' = ParseToolCalls(backend, n)
          /\ returned' = Append(returned, tool_calls')
          /\ idx' = 1
          /\ gpc' = "exec"
          /\ UNCHANGED result
  /\ UNCHANGED <<backend, config, request, messages, round, calls, executed,
                 toolenv, chatVars, pureVars>>

\* executor.execute returns; the result is appended; after the last call of
\* the round the next provider call is made
ExecReturn ==
  /\ gpc = "exec"
  /\ LET call == ToolCallAt(tool_calls, idx)
         res == Execute(call.name, call.args, config.memory,
                        request.participants, toolenv)
         msgs == AppendToolResult(backend, messages, call, res)
     IN IF res.kind = "raise"
        THEN /\ gpc' = "raised"
             /\ UNCHANGED <<messages, round, idx, calls, executed>>
        ELSE /\ executed' = Append(executed,
                              [round |-> round, call |-> call, result |-> res])
             /\ IF idx < Len(tool_calls)
                THEN /\ idx' = idx + 1
                     /\ messages' = msgs
                     /\ UNCHANGED <<gpc, round, calls>>
                ELSE IF round < MAX_TOOL_ROUNDS
                THEN /\ round' = round + 1
                     /\ IssueCall("tools", msgs, attachments)
                     /\ gpc' = "tools_call"
                     /\ UNCHANGED idx
                ELSE /\ IssueCall("single", msgs, 0)
                     /\ gpc' = "final_call"
                     /\ UNCHANGED <<round, idx>>
  /\ UNCHANGED <<backend, config, request, attachments, tool_calls, response,
                 returned, result, toolenv, chatVars, pureVars>>

\* _call_api gets the provider's response and returns its text, stripped by
\* the adapter: (text or "").strip(), but content.strip() in ollama.py, which
\* raises when the content is None
CallApiReturn(text) ==
  /\ gpc \in {"single_call", "final_call"}
  /\ response' = [kind |-> "single", text |-> text, n |-> 0]
  /\ IF backend = "ollama" /\ text = NoneText
     THEN gpc' = "raised" /\ UNCHANGED result
     ELSE gpc' = "returned" /\ result' = Strip(OrEmpty(text))
  /\ UNCHANGED <<backend, config, request, messages, attachments, round,
                 tool_calls, idx, calls, returned, executed, toolenv, chatVars,
                 pureVars>>

\* the provider call raises: nothing in generate catches it
ProviderFail ==
  /\ gpc \in {"tools_call", "single_call", "final_call"}
  /\ gpc' = "raised"
  /\ UNCHANGED <<backend, config, request, messages, attachments, round,
                 tool_calls, idx, calls, response, returned, executed, result,
                 toolenv, chatVars, pureVars>>

\* No provider call has returned yet.
NoResponse == [kind |-> "none", text |-> NoneText, n |-> 0]

NominalEnv == [ddg |-> TRUE, search |-> "results", fault |-> FALSE]

Contexts == {<<>>, <<Msg("assistant", "text", <<"yo">>)>>}

Requests ==
  [context : Contexts, prompt : {<<"">>, <<"hello">>}, attachments : 0..MaxAtt,
   participants : {{"Alice"}}]

\* No generate call is being looked at (the scheduler's specifications).
GenIdle ==
  /\ backend = "ollama"
  /\ config = [enable_web_search |-> FALSE, memory |-> FALSE]
  /\ request = [context |-> <<>>, prompt |-> <<"">>, attachments |-> 0,
                participants |-> {}]
  /\ messages = <<>>
  /\ attachments = 0
  /\ gpc = "off"
  /\ round = 0
  /\ tool_calls = <<>>
  /\ idx = 0
  /\ calls = <<>>
  /\ response = NoResponse
  /\ returned = <<>>
  /\ executed = <<>>
  /\ result = NoneText
  /\ toolenv = NominalEnv

\* ------------------------------------- AnthropicBackend._normalize_messages
MaxTurns == 3          \* length of the message sequence handed to normalization

\* The turns of the sequences: plain-text turns of both roles, and the
\* structured turns the tool loop produces (content is a list of blocks).
Turns ==
  {Msg(r, "text", t) : r \in {"user", "assistant"}, t \in {<<"a">>, <<"b", "">>}}
  \cup {Msg("assistant", "tool_use", <<>>), Msg("user", "tool_result", <<>>)}

RECURSIVE SeqsUpTo(_, _)
SeqsUpTo(S, n) ==
  IF n = 0 THEN {<<>>}
  ELSE LET R == SeqsUpTo(S, n - 1)
       IN R \cup {Append(q, x) : q \in {r \in R : Len(r) = n - 1}, x \in S}

NormIdle == [pc |-> "off", messages |-> <<>>, normalized |-> <<>>]

\* _normalize_messages(messages) returns
NormalizeReturn ==
  /\ norm.pc = "call"
  /\ norm' = [norm EXCEPT !.pc = "done",
                          !.normalized = NormalizeMessages(norm.messages)]
  /\ UNCHANGED <<chatVars, genVars, message_store, sampler, libVars>>

\* ------------------------------------- MessageStore.get_sampled_messages
MaxCorpus == 4         \* messages in the store
MaxFiles == 2          \* .txt files the messages come from

Paths == 1..MaxFiles

\* The store after reload(): the files are read in sorted order, so the
\* positions of one file are contiguous and the paths never decrease.
Stores ==
  {st \in SeqsUpTo([path : Paths, text : {"x", "y"}], MaxCorpus) :
     \A i \in 1..Len(st) - 1 : st[i].path <= st[i + 1].path}

\* The requested counts: below, at and above every corpus size
Counts == 0..MaxCorpus + 1

\* list(self._messages), by position
AllPositions(st) == [i \in 1..Len(st) |-> i]

\* by_file[path]: the positions whose source is path, in store order
ByFile(st, path) == SelectSeq(AllPositions(st), LAMBDA i : st[i].path = path)

\* list(by_file.keys()): the paths in order of first appearance
FilesOf(st) ==
  SelectSeq(AllPositions(st), LAMBDA i : \A j \in 1..i - 1 : st[j].path # st[i].path)

\* random.choices: draws with replacement
Resamples(seq) == [1..Len(seq) -> {seq[i] : i \in 1..Len(seq)}]

\* random.shuffle(seq): every order of seq
Shuffles(seq) ==
  {[i \in 1..Len(seq) |-> seq[p[i]]] : p \in Permutations(1..Len(seq))}

\* random.sample(population, k): k distinct positions of population, in any
\* order
RandomSample(population, k) ==
  {[i \in 1..k |-> population[f[i]]] :
     f \in {g \in [1..k -> 1..Len(population)] :
              \A i \in 1..k, j \in 1..k : i # j => g[i] # g[j]}}

Max(a, b) == IF a >= b THEN a ELSE b

Min(a, b) == IF a <= b THEN a ELSE b

\* per_file = max(1, count // len(files))
PerFile(count, nfiles) == Max(1, count \div nfiles)

DrawNone(n, per_file) == 0

\* k = min(len(msgs), per_file)
DrawSize(n, per_file) == Min(n, per_file)

TrimNothing(seq, count) == seq

\* sampled_messages[:count], count >= 0
Trim(seq, count) == SubSeq(seq, 1, Min(count, Len(seq)))

SamplerIdle ==
  [pc |-> "off", count |-> 0, files |-> <<>>, f |-> 0,
   sampled_messages |-> <<>>, filled |-> 0, result |-> <<>>]

\* get_sampled_messages(count) up to the per-file loop: the empty store, the
\* whole corpus shuffled, or the grouping by file
SampleCall ==
  /\ sampler.pc = "call"
  /\ IF message_store = <<>>
     THEN sampler' = [sampler EXCEPT !.pc = "done", !.result = <<>>]
     ELSE IF sampler.count >= Len(message_store)
     THEN \E shuffled \in Shuffles(AllPositions(message_store)) :
            sampler' = [sampler EXCEPT !.pc = "done", !.result = shuffled]
     ELSE sampler' = [sampler EXCEPT !.pc = "draw", !.f = 1,
                                     !.files = FilesOf(message_store)]
  /\ UNCHANGED <<chatVars, genVars, message_store, norm, libVars>>

\* one iteration of `for path in files`
SampleFile ==
  /\ sampler.pc = "draw"
  /\ LET path == message_store[sampler.files[sampler.f]].path
         msgs == ByFile(message_store, path)
         per_file == PerFile(sampler.count, Len(sampler.files))
         k == DrawSize(Len(msgs), per_file)
     IN \E drawn \in RandomSample(msgs, k) :
          sampler' = [sampler EXCEPT
                        !.sampled_messages = @ \o drawn,
                        !.f = @ + 1,
                        !.pc = IF sampler.f = Len(sampler.files) THEN "fill" ELSE "draw"]
  /\ UNCHANGED <<chatVars, genVars, message_store, norm, libVars>>

\* the fill from the full list when remaining_slots > 0
SampleFill ==
  /\ sampler.pc = "fill"
  /\ LET remaining_slots == sampler.count - Len(sampler.sampled_messages)
     IN IF remaining_slots > 0
        THEN \E drawn \in RandomSample(AllPositions(message_store), remaining_slots) :
               sampler' = [sampler EXCEPT !.sampled_messages = @ \o drawn,
                                          !.filled = remaining_slots,
                                          !.pc = "shuffle"]
        ELSE sampler' = [sampler EXCEPT !.pc = "shuffle"]
  /\ UNCHANGED <<chatVars, genVars, message_store, norm, libVars>>

\* the final shuffle and the trim to count
SampleReturn ==
  /\ sampler.pc = "shuffle"
  /\ \E shuffled \in Shuffles(sampler.sampled_messages) :
       sampler' = [sampler EXCEPT !.pc = "done",
                                  !.result = Trim(shuffled, sampler.count)]
  /\ UNCHANGED <<chatVars, genVars, message_store, norm, libVars>>

\* ------------------------------------------------------------- strings
\* A string is the sequence of its characters. str.isspace() of a character:
IsSpace(c) == c \in {" ", "\n"}

RECURSIVE LStrip(_)
LStrip(s) == IF s # <<>> /\ IsSpace(Head(s)) THEN LStrip(Tail(s)) ELSE s

RECURSIVE RStrip(_)
RStrip(s) ==
  IF s # <<>> /\ IsSpace(s[Len(s)]) THEN RStrip(SubSeq(s, 1, Len(s) - 1)) ELSE s

\* str.strip()
StripStr(s) == RStrip(LStrip(s))

SplitNothing(s) == <<s>>

\* s.split("\n")
RECURSIVE SplitLines(_)
SplitLines(s) ==
  LET nl == {i \in 1..Len(s) : s[i] = "\n"}
  IN IF nl = {} THEN <<s>>
     ELSE LET i == CHOOSE k \in nl : \A j \in nl : k <= j
          IN <<SubSeq(s, 1, i - 1)>> \o SplitLines(SubSeq(s, i + 1, Len(s)))

\* s.rfind(pat, 0, end): the highest 0-based index at which pat occurs within
\* s[0:end], or -1
RFind(s, pat, end) ==
  LET hi == Min(end, Len(s))
      found == {i \in 0..hi - Len(pat) : SubSeq(s, i + 1, i + Len(pat)) = pat}
  IN IF found = {} THEN -1 ELSE CHOOSE i \in found : \A j \in found : j <= i

\* ------------------------------------------------- chunker.chunk_response
\* The limits of chunk_response are 2000 (the longest chunk) and 1900 (the
\* end of the window searched for a boundary). The model keeps the code and
\* scales the two numbers, so that texts longer than the limit can be
\* enumerated.
ChunkLimit == 6        \* 2000 in chunker.py
SearchEnd == 4         \* 1900 in chunker.py
MaxText == 7           \* length of the texts over all characters

\* The characters of the texts: a letter, two of the three sentence ends, the
\* space and the newline.
Chars == {"a", ".", "!", " ", "\n"}

\* Every text up to MaxText, and the runs of letters up to three chunks.
ChunkTexts ==
  UNION {[1..n -> Chars] : n \in 0..MaxText}
  \cup {[i \in 1..n |-> "a"] : n \in 1..2 * ChunkLimit + 1}

\* for punc in (". ", "! ", "? "): idx = remaining.rfind(punc, 0, 1900);
\* if idx > split_idx: split_idx = idx + 1
RECURSIVE SentenceSplit(_, _, _)
SentenceSplit(remaining, puncs, split_idx) ==
  IF puncs = <<>> THEN split_idx
  ELSE LET at == RFind(remaining, Head(puncs), SearchEnd)
       IN SentenceSplit(remaining, Tail(puncs),
                        IF at > split_idx THEN at + 1 ELSE split_idx)

SplitIndexLateCut(remaining) ==
  LET sentence == SentenceSplit(remaining, <<<<".", " ">>, <<"!", " ">>, <<"?", " ">>>>, -1)
      space == IF sentence <= 0 THEN RFind(remaining, <<" ">>, SearchEnd) ELSE sentence
  IN IF space <= 0 THEN ChunkLimit + 1 ELSE space

\* split_idx of one iteration: sentence boundary, else space, else hard cut
SplitIndex(remaining) ==
  LET sentence == SentenceSplit(remaining, <<<<".", " ">>, <<"!", " ">>, <<"?", " ">>>>, -1)
      space == IF sentence <= 0 THEN RFind(remaining, <<" ">>, SearchEnd) ELSE sentence
  IN IF space <= 0 THEN ChunkLimit ELSE space

\* while remaining: the chunks of one stripped paragraph
RECURSIVE ChunkParagraph(_)
ChunkParagraph(remaining) ==
  IF remaining = <<>> THEN <<>>
  ELSE IF Len(remaining) <= ChunkLimit THEN <<remaining>>
  ELSE LET split_idx == SplitIndex(remaining)
       IN <<StripStr(SubSeq(remaining, 1, split_idx))>>
          \o ChunkParagraph(StripStr(SubSeq(remaining, split_idx + 1, Len(remaining))))

\* for paragraph in text.split("\n"): paragraph = paragraph.strip()
RECURSIVE ChunkParagraphs(_)
ChunkParagraphs(paragraphs) ==
  IF paragraphs = <<>> THEN <<>>
  ELSE ChunkParagraph(StripStr(Head(paragraphs))) \o ChunkParagraphs(Tail(paragraphs))

ChunkResponse(text) == ChunkParagraphs(SplitLines(text))

ChunkerIdle == [pc |-> "off", text |-> <<>>, chunks |-> <<>>]

\* chunk_response(text) returns
ChunkReturn ==
  /\ chunker.pc = "call"
  /\ chunker' = [chunker EXCEPT !.pc = "done", !.chunks = ChunkResponse(chunker.text)]
  /\ UNCHANGED <<chatVars, genVars, norm, message_store, sampler, data_dir,
                 store_call, extractor, sender, memory_file>>

\* ---------------------------------------------- chunker.extract_reactions
MaxMarked == 8         \* length of the texts, in tokens

\* The texts are made of these pieces: the two halves of the literal
\* "[react:" of _REACTION_PATTERN, a space, a letter and the closing bracket.
\* No piece holds a part of the literal next to other characters, so the
\* pattern matches on the pieces as it does on the characters.
Tokens == {"[", "react:", " ", "x", "]"}

MarkedTexts == UNION {[1..n -> Tokens] : n \in 0..MaxMarked}

\* The first "]" at or after position k (0: none)
CloseAt(s, k) ==
  LET C == {j \in k..Len(s) : s[j] = "]"}
  IN IF C = {} THEN 0 ELSE CHOOSE j \in C : \A m \in C : j <= m

\* _REACTION_PATTERN  \[react:\s*([^\]]+)\]  matched at position i: the
\* position of the closing bracket (0: no match here). The group needs one
\* character at least, none of them a "]".
MatchEnd(s, i) ==
  IF i + 1 <= Len(s) /\ s[i] = "[" /\ s[i + 1] = "react:"
  THEN LET k == CloseAt(s, i + 2) IN IF k > i + 2 THEN k ELSE 0
  ELSE 0

\* The group of the match from i to k: what follows the whitespace that \s*
\* takes; \s* gives one character back when it would take everything.
Group(s, i, k) ==
  LET body == SubSeq(s, i + 2, k - 1)
      rest == LStrip(body)
  IN IF rest = <<>> THEN <<body[Len(body)]>> ELSE rest

\* _REACTION_PATTERN.findall(text): the groups of the non-overlapping
\* matches, scanning from the left
RECURSIVE FindAll(_, _)
FindAll(s, i) ==
  IF i > Len(s) THEN <<>>
  ELSE LET k == MatchEnd(s, i)
       IN IF k = 0 THEN FindAll(s, i + 1) ELSE <<Group(s, i, k)>> \o FindAll(s, k + 1)

\* _REACTION_PATTERN.sub("", text): one pass over the same matches
RECURSIVE SubEmpty(_, _)
SubEmpty(s, i) ==
  IF i > Len(s) THEN <<>>
  ELSE LET k == MatchEnd(s, i)
       IN IF k = 0 THEN <<s[i]>> \o SubEmpty(s, i + 1) ELSE SubEmpty(s, k + 1)

\* return clean, [r.strip() for r in reactions if r.strip()]
ExtractReactions(text) ==
  LET reactions == FindAll(text, 1)
      stripped == [i \in 1..Len(reactions) |-> StripStr(reactions[i])]
  IN [clean |-> StripStr(SubEmpty(text, 1)),
      reactions |-> SelectSeq(stripped, LAMBDA r : r # <<>>)]

ExtractorIdle == [pc |-> "off", text |-> <<>>, clean |-> <<>>, reactions |-> <<>>]

\* extract_reactions(text) returns
ExtractReturn ==
  /\ extractor.pc = "call"
  /\ LET out == ExtractReactions(extractor.text)
     IN extractor' = [extractor EXCEPT !.pc = "done", !.clean = out.clean,
                                       !.reactions = out.reactions]
  /\ UNCHANGED <<chatVars, genVars, norm, message_store, sampler, data_dir,
                 store_call, chunker, sender, memory_file>>

\* ------------------------------------------------------ memory.MemoryStore
MAX_USER_FACTS == 20

MAX_CHANNEL_MEMORIES == 50

MemOver == 2           \* adds beyond the cap of the list
MemRemoves == 1        \* remove operations

\* One file is looked at: the facts of one user or the memories of one
\* channel (watch). An entry is the number of the add that stored it, so that
\* entries are told apart; added counts the adds, floor is added at the last
\* clear, removed counts the removes.
MemoryIdle ==
  [watch |-> "none", items |-> <<>>, added |-> 0, floor |-> 0, removed |-> 0]

MemCap(watch) == IF watch = "user" THEN MAX_USER_FACTS ELSE MAX_CHANNEL_MEMORIES

EvictNewest(seq, cap) == IF Len(seq) > cap THEN SubSeq(seq, 1, cap) ELSE seq

\* if len(facts) > MAX: facts = facts[-MAX:]
Evict(seq, cap) ==
  IF Len(seq) > cap THEN SubSeq(seq, Len(seq) - cap + 1, Len(seq)) ELSE seq

MemoryFrame ==
  UNCHANGED <<chatVars, genVars, norm, message_store, sampler, data_dir,
              store_call, chunker, extractor, sender>>

MemAdd(cap) ==
  /\ memory_file.added < cap + MemOver
  /\ memory_file' = [memory_file EXCEPT !.added = @ + 1,
                              !.items = Evict(Append(@, memory_file.added + 1), cap)]
  /\ MemoryFrame

\* facts.pop(index) for a valid 0-based index; any other index raises
\* IndexError before anything is saved
MemRemove(index) ==
  /\ memory_file.removed < MemRemoves
  /\ index >= 0 /\ index < Len(memory_file.items)
  /\ memory_file' = [memory_file EXCEPT
                  !.removed = @ + 1,
                  !.items = SubSeq(@, 1, index) \o SubSeq(@, index + 2, Len(@))]
  /\ MemoryFrame

MemClear ==
  /\ memory_file' = [memory_file EXCEPT !.items = <<>>, !.floor = memory_file.added]
  /\ MemoryFrame

AddUserMemory == memory_file.watch = "user" /\ MemAdd(MAX_USER_FACTS)

RemoveUserMemory == memory_file.watch = "user" /\ \E index \in 0..MAX_USER_FACTS - 1 : MemRemove(index)

ClearUserMemories == memory_file.watch = "user" /\ MemClear

AddChannelMemory == memory_file.watch = "channel" /\ MemAdd(MAX_CHANNEL_MEMORIES)

RemoveChannelMemory ==
  memory_file.watch = "channel" /\ \E index \in 0..MAX_CHANNEL_MEMORIES - 1 : MemRemove(index)

ClearChannelMemories == memory_file.watch = "channel" /\ MemClear

\* ------------------------------------- MessageStore: add, remove, clear
MaxLines == 3          \* lines in the files of the data directory

\* The .txt files of the data directory, in sorted order: the file that
\* add_messages appends to, and one that sorts after it.
StoreFiles == <<"messages.txt", "notes.txt">>

\* The lines of the files: two texts and a line of whitespace.
FileLines == {"x", "y", " "}

\* line.strip() of a file line
StripLine(line) == IF line = " " THEN "" ELSE line

DirLines(dir) == Len(dir[1]) + Len(dir[2])

Dirs ==
  {dir \in [1..Len(StoreFiles) -> SeqsUpTo(FileLines, MaxLines)] : DirLines(dir) <= MaxLines}

\* _load_txt(path): a message, with its source (path, i), per line that is
\* not blank
LoadTxt(dir, f) ==
  LET all == [i \in 1..Len(dir[f]) |->
                [path |-> StoreFiles[f], text |-> StripLine(dir[f][i]), line |-> i - 1]]
  IN SelectSeq(all, LAMBDA m : m.text # "")

\* reload(): the files in sorted order
Reload(dir) == LoadTxt(dir, 1) \o LoadTxt(dir, 2)

\* list_messages()
ListMessages(st) == [i \in 1..Len(st) |-> st[i].text]

\* The strings handed to add_messages, each as the lines it is made of (the
\* text between its newlines): "x", " ", "x\ny"
InputStrings == {<<"x">>, <<" ">>, <<"x", "y">>}

\* ln.strip() of such a string: the blank lines at its ends go
RECURSIVE StripInput(_)
StripInput(ln) ==
  IF ln # <<>> /\ StripLine(Head(ln)) = "" THEN StripInput(Tail(ln))
  ELSE IF ln # <<>> /\ StripLine(ln[Len(ln)]) = "" THEN StripInput(SubSeq(ln, 1, Len(ln) - 1))
  ELSE ln

\* cleaned = [ln.strip() for ln in lines if ln.strip()]
Cleaned(lines) ==
  SelectSeq([i \in 1..Len(lines) |-> StripInput(lines[i])], LAMBDA ln : ln # <<>>)

\* for line in cleaned: f.write(f"{line}\n"): what the file gains
RECURSIVE Written(_)
Written(cleaned) ==
  IF cleaned = <<>> THEN <<>> ELSE Head(cleaned) \o Written(Tail(cleaned))

NoStoreCall == [op |-> "none", ret |-> 0, before |-> <<>>]

StoreFrame ==
  UNCHANGED <<chatVars, genVars, norm, sampler, chunker, extractor, sender, memory_file>>

\* add_messages(lines)
AddMessages(lines) ==
  /\ LET cleaned == Cleaned(lines)
     IN /\ DirLines(data_dir) + Len(Written(cleaned)) <= MaxLines
        /\ data_dir' = [data_dir EXCEPT ![1] = @ \o Written(cleaned)]
        /\ message_store' = IF cleaned = <<>> THEN message_store ELSE Reload(data_dir')
        /\ store_call' = [op |-> "add", ret |-> Len(cleaned),
                          before |-> ListMessages(message_store)]
  /\ StoreFrame

\* remove_message(index)
RemoveMessage(index) ==
  /\ LET real_idx == index - 1
     IN IF ~(0 <= real_idx /\ real_idx < Len(message_store))
        THEN /\ store_call' = [op |-> "remove", ret |-> "IndexError",
                               before |-> ListMessages(message_store)]
             /\ UNCHANGED <<data_dir, message_store>>
        ELSE LET src == message_store[index]
                 f == CHOOSE k \in 1..Len(StoreFiles) : StoreFiles[k] = src.path
             IN /\ data_dir' = [data_dir EXCEPT ![f] =
                                  SubSeq(@, 1, src.line) \o SubSeq(@, src.line + 2, Len(@))]
                /\ message_store' = Reload(data_dir')
                /\ store_call' = [op |-> "remove", ret |-> src.text,
                                  before |-> ListMessages(message_store)]
  /\ StoreFrame

\* MessageStore.clear_messages(), the store operation of the clear_messages
\* command of the admin cog
ClearMessages ==
  /\ data_dir' = [f \in 1..Len(StoreFiles) |-> <<>>]
  /\ message_store' = Reload(data_dir')
  /\ store_call' = [op |-> "clear", ret |-> Len(message_store),
                    before |-> ListMessages(message_store)]
  /\ StoreFrame

\* ------------------------------------------------- chunker.send_chunked
MaxChunks == 3         \* chunks of one reply
MaxReacts == 3         \* reactions extracted from one reply

\* The chunks of chunk_response(clean_text) are numbered in list order, the
\* extracted reactions too. target: react_target is given. log: the platform
\* calls made so far, in order (ok: the call returned, it did not raise).
SenderIdle ==
  [pc |-> "off", chunks |-> 0, reactions |-> 0, target |-> FALSE, i |-> 0, log |-> <<>>]

SendFrame ==
  UNCHANGED <<chatVars, genVars, norm, message_store, sampler, data_dir,
              store_call, chunker, extractor, memory_file>>

\* `for chunk in ...` takes the next chunk and enters channel.typing(), or
\* the chunks are over: `if react_target and reactions`
SendTyping ==
  /\ sender.pc = "loop"
  /\ IF sender.i < sender.chunks
     THEN sender' = [sender EXCEPT !.pc = "typing", !.i = @ + 1,
                                   !.log = Append(@, [op |-> "typing", on |-> "channel",
                                                      arg |-> sender.i + 1, ok |-> TRUE])]
     ELSE IF sender.target /\ sender.reactions > 0
     THEN sender' = [sender EXCEPT !.pc = "react", !.i = 1]
     ELSE sender' = [sender EXCEPT !.pc = "done"]
  /\ SendFrame

\* await asyncio.sleep(typing_delay(chunk)); await channel.send(chunk)
SendDeliver ==
  /\ sender.pc = "typing"
  /\ sender' = [sender EXCEPT !.pc = "loop",
                              !.log = Append(@, [op |-> "send", on |-> "channel",
                                                 arg |-> sender.i, ok |-> TRUE])]
  /\ SendFrame

\* channel.typing() or channel.send raises: the exception leaves send_chunked
SendRaise ==
  /\ sender.pc = "typing"
  /\ sender' = [sender EXCEPT !.pc = "raised"]
  /\ SendFrame

SendReactStopOnFail(ok) ==
  /\ sender.pc = "react"
  /\ sender' = [sender EXCEPT
                  !.log = Append(@, [op |-> "react", on |-> "target", arg |-> sender.i,
                                     ok |-> ok]),
                  !.i = @ + 1,
                  !.pc = IF sender.i = sender.reactions \/ ~ok THEN "done" ELSE "react"]
  /\ SendFrame

\* one iteration of `for emoji in reactions`: react_target.add_reaction(emoji)
\* returns (ok) or raises a DiscordException, which is passed over
SendReact(ok) ==
  /\ sender.pc = "react"
  /\ sender' = [sender EXCEPT
                  !.log = Append(@, [op |-> "react", on |-> "target", arg |-> sender.i,
                                     ok |-> ok]),
                  !.i = @ + 1,
                  !.pc = IF sender.i = sender.reactions THEN "done" ELSE "react"]
  /\ SendFrame

\* Nothing of chunker.py and memory.py is being looked at.
LibIdle ==
  /\ chunker = ChunkerIdle
  /\ extractor = ExtractorIdle
  /\ sender = SenderIdle
  /\ memory_file = MemoryIdle

\* The data directory of the chat cog's runs: one message.
LoadedDir == [f \in 1..Len(StoreFiles) |-> IF f = 1 THEN <<"x">> ELSE <<>>]

\* The bot with a corpus: on_message returns at once while the store is empty.
Loaded ==
  /\ norm = NormIdle
  /\ sampler = SamplerIdle
  /\ data_dir = LoadedDir
  /\ message_store = Reload(LoadedDir)
  /\ store_call = NoStoreCall
  /\ LibIdle

\* No normalization, no sampling and no store operation is being looked at.
PureIdle ==
  /\ norm = NormIdle
  /\ message_store = <<>>
  /\ sampler = SamplerIdle
  /\ data_dir = [f \in 1..Len(StoreFiles) |-> <<>>]
  /\ store_call = NoStoreCall
  /\ LibIdle

ChatInit(n) ==
  /\ budget = n
  /\ pending = [c \in Convs |-> 0]
  /\ tasks = [t \in TaskIds |-> NoTask]
  /\ history = [c \in Convs |-> 0]
  /\ burst = [c \in Convs |-> TRUE]

Init == ChatInit(MaxTasks) /\ GenIdle /\ Loaded

Next ==
  \/ \E c \in Convs : OnMessage(c)
  \/ \E t \in TaskIds : TaskStart(t)
  \/ \E t \in TaskIds : TypingFail(t)
  \/ \E t \in TaskIds : TaskCancelled(t)
  \/ \E t \in TaskIds : SleepDone(t)
  \/ \E t \in TaskIds : BuildDone(t)
  \/ \E t \in TaskIds : BuildFail(t)
  \/ \E t \in TaskIds, chunks \in BOOLEAN, reacts \in BOOLEAN : GenText(t, chunks, reacts)
  \/ \E t \in TaskIds, prompt \in BOOLEAN : GenEmpty(t, prompt)
  \/ \E t \in TaskIds : GenFail(t)
  \/ \E t \in TaskIds, last \in BOOLEAN, reacts \in BOOLEAN : SendChunk(t, last, reacts)
  \/ \E t \in TaskIds : SendFail(t)
  \/ \E t \in TaskIds, ok \in BOOLEAN, last \in BOOLEAN : React(t, ok, last)
  \/ \E t \in TaskIds, ok \in BOOLEAN : Warn(t, ok)

Spec == Init /\ [][Next]_vars

\* The same scheduler on a run of at most MaxPair qualifying triggers.
InitPair == ChatInit(MaxPair) /\ GenIdle /\ Loaded

\* One Backend.generate call, for every adapter, configuration and request.
InitGen ==
  /\ ChatInit(0)
  /\ PureIdle
  /\ backend \in Backends
  /\ config \in [enable_web_search : BOOLEAN, memory : BOOLEAN]
  /\ request \in Requests
  /\ messages = <<>>
  /\ attachments = 0
  /\ gpc = "idle"
  /\ round = 0
  /\ tool_calls = <<>>
  /\ idx = 0
  /\ calls = <<>>
  /\ response = NoResponse
  /\ returned = <<>>
  /\ executed = <<>>
  /\ result = NoneText
  /\ toolenv = NominalEnv

NextGen ==
  \/ Generate
  \/ \E text \in Texts, n \in 0..MaxCalls : ToolsReturn(text, n)
  \/ ExecReturn
  \/ \E text \in Texts : CallApiReturn(text)
  \/ ProviderFail

SpecGen == InitGen /\ [][NextGen]_vars

\* The argument values a provider can hand to a tool
ToolArgs(name) ==
  IF name = "web_search"
  THEN {[NoArgs EXCEPT !.query = q] : q \in {Missing, "", "q", NonString}}
       \cup {[NoArgs EXCEPT !.isdict = FALSE]}
  ELSE IF name = "remember_user"
  THEN {[NoArgs EXCEPT !.user_name = u, !.fact = f] :
          u \in {Missing, "", "ALICE", "Bob", NonString}, f \in {Missing, "", "f"}}
       \cup {[NoArgs EXCEPT !.isdict = FALSE]}
  ELSE IF name = "remember_channel"
  THEN {[NoArgs EXCEPT !.memory = m] : m \in {Missing, "", "m"}}
       \cup {[NoArgs EXCEPT !.isdict = FALSE]}
  ELSE {NoArgs, [NoArgs EXCEPT !.isdict = FALSE]}

ToolNames == KnownTools \cup {"lookup"}

ToolEnvs == [ddg : BOOLEAN, search : {"results", "empty", "raises"}, fault : BOOLEAN]

\* The first round of a tool loop has returned one tool call, of any name and
\* any arguments; the executor runs it in any environment.
InitTool ==
  /\ ChatInit(0)
  /\ PureIdle
  /\ backend \in Backends
  /\ config \in {cfg \in [enable_web_search : BOOLEAN, memory : BOOLEAN] :
                   ActiveTools(backend, cfg) # <<>>}
  /\ request \in [context : {<<>>}, prompt : {<<"hello">>}, attachments : {0},
                  participants : {{}, {"Alice"}}]
  /\ messages = InitialMessages(request)
  /\ attachments = 0
  /\ gpc = "exec"
  /\ round = 1
  /\ \E name \in ToolNames : \E args \in ToolArgs(name) :
       tool_calls = <<[id |-> IF backend \in {"gemini", "ollama"} THEN name ELSE "call_1",
                       name |-> name, args |-> args]>>
  /\ idx = 1
  /\ calls = <<ToolsPayload(backend, config, messages, 0)>>
  /\ response = [kind |-> "tools", text |-> NoneText, n |-> 1]
  /\ returned = <<tool_calls>>
  /\ executed = <<>>
  /\ result = NoneText
  /\ toolenv \in ToolEnvs

NextTool == ExecReturn

SpecTool == InitTool /\ [][NextTool]_vars

SpecPair == InitPair /\ [][Next]_vars

\* One _normalize_messages call, for every message sequence.
InitNorm ==
  /\ ChatInit(0)
  /\ GenIdle
  /\ message_store = <<>>
  /\ sampler = SamplerIdle
  /\ data_dir = [f \in 1..Len(StoreFiles) |-> <<>>]
  /\ store_call = NoStoreCall
  /\ LibIdle
  /\ norm \in [pc : {"call"}, messages : SeqsUpTo(Turns, MaxTurns), normalized : {<<>>}]

NextNorm == NormalizeReturn

SpecNorm == InitNorm /\ [][NextNorm]_vars

\* One get_sampled_messages call, for every store and every count.
InitSample ==
  /\ ChatInit(0)
  /\ GenIdle
  /\ norm = NormIdle
  /\ data_dir = [f \in 1..Len(StoreFiles) |-> <<>>]
  /\ store_call = NoStoreCall
  /\ LibIdle
  /\ message_store \in Stores
  /\ \E count \in Counts :
       sampler = [SamplerIdle EXCEPT !.pc = "call", !.count = count]

NextSample ==
  \/ SampleCall
  \/ SampleFile
  \/ SampleFill
  \/ SampleReturn

SpecSample == InitSample /\ [][NextSample]_vars

\* Nothing of the store, the sampler and the normalization is looked at.
StoreIdle ==
  /\ norm = NormIdle
  /\ message_store = <<>>
  /\ sampler = SamplerIdle
  /\ data_dir = [f \in 1..Len(StoreFiles) |-> <<>>]
  /\ store_call = NoStoreCall

\* One chunk_response call, for every text.
InitChunk ==
  /\ ChatInit(0)
  /\ GenIdle
  /\ StoreIdle
  /\ sender = SenderIdle
  /\ extractor = ExtractorIdle
  /\ memory_file = MemoryIdle
  /\ chunker \in [pc : {"call"}, text : ChunkTexts, chunks : {<<>>}]

NextChunk == ChunkReturn

SpecChunk == InitChunk /\ [][NextChunk]_vars

\* One extract_reactions call, for every text.
InitReact ==
  /\ ChatInit(0)
  /\ GenIdle
  /\ StoreIdle
  /\ sender = SenderIdle
  /\ chunker = ChunkerIdle
  /\ memory_file = MemoryIdle
  /\ extractor \in [pc : {"call"}, text : MarkedTexts, clean : {<<>>},
                    reactions : {<<>>}]

NextReact == ExtractReturn

SpecReact == InitReact /\ [][NextReact]_vars

\* The memory file of one user or of one channel, from the empty file on.
InitMemory ==
  /\ ChatInit(0)
  /\ GenIdle
  /\ StoreIdle
  /\ sender = SenderIdle
  /\ chunker = ChunkerIdle
  /\ extractor = ExtractorIdle
  /\ memory_file \in {[MemoryIdle EXCEPT !.watch = w] : w \in {"user", "channel"}}

NextMemory ==
  \/ AddUserMemory
  \/ RemoveUserMemory
  \/ ClearUserMemories
  \/ AddChannelMemory
  \/ RemoveChannelMemory
  \/ ClearChannelMemories

SpecMemory == InitMemory /\ [][NextMemory]_vars

\* A MessageStore constructed on a data directory, and the operations on it.
InitStore ==
  /\ ChatInit(0)
  /\ GenIdle
  /\ norm = NormIdle
  /\ sampler = SamplerIdle
  /\ LibIdle
  /\ data_dir \in Dirs
  /\ message_store = Reload(data_dir)
  /\ store_call = NoStoreCall

NextStore ==
  \/ \E lines \in SeqsUpTo(InputStrings, 2) : AddMessages(lines)
  \/ \E index \in 0..MaxLines + 1 : RemoveMessage(index)
  \/ ClearMessages

SpecStore == InitStore /\ [][NextStore]_vars

\* One send_chunked call, for every number of chunks and of reactions, with
\* and without a react target.
InitSend ==
  /\ ChatInit(0)
  /\ GenIdle
  /\ StoreIdle
  /\ chunker = ChunkerIdle
  /\ extractor = ExtractorIdle
  /\ memory_file = MemoryIdle
  /\ sender \in [pc : {"loop"}, chunks : 0..MaxChunks, reactions : 0..MaxReacts,
                 target : BOOLEAN, i : {0}, log : {<<>>}]

NextSend ==
  \/ SendTyping
  \/ SendDeliver
  \/ SendRaise
  \/ \E ok \in BOOLEAN : SendReact(ok)

SpecSend == InitSend /\ [][NextSend]_vars

\* The debounce scheduler with an administrator who clears the corpus.
NextClear ==
  \/ Next
  \/ ClearMessages

SpecClear == InitPair /\ [][NextClear]_vars

\* Runs on which the platform and provider calls return: the event loop keeps
\* running the tasks that can take a step.
NextLive ==
  \/ \E c \in Convs : OnMessage(c)
  \/ \E t \in TaskIds : TaskStep(t)

SpecLive ==
  InitPair /\ [][NextLive]_vars /\ WF_vars(\E t \in TaskIds : TaskStep(t))

\* ------------------------------------------------------- claims: debounce
\* A live task: waiting or running, and not cancelled.
Live(t) == tasks[t].pc \notin {"none", "done"} /\ ~tasks[t].cancel

TasksOf(c) == {t \in TaskIds : tasks[t].conv = c}

\* C1: in every reachable state each conversation identifier has at most one
\* live (waiting or running, not cancelled) debounced response task.
C1_AtMostOneLiveTask ==
  \A c \in Convs : Cardinality({t \in TasksOf(c) : Live(t)}) <= 1

\* The task of the k-th trigger of conversation c (history counts the
\* triggers); NoTask before that trigger.
TaskOf(c, k) ==
  LET S == {t \in TaskIds : tasks[t].conv = c /\ tasks[t].trig = k}
  IN IF S = {} THEN NoTask ELSE tasks[CHOOSE t \in S : TRUE]

\* Exactly the triggers A and B so far, B within A's debounce interval.
ScenarioAB(c) == history[c] = 2 /\ burst[c]

OneGenerationByB(c) ==
  /\ TaskOf(c, 1).gens = 0
  /\ TaskOf(c, 2).gens = 1
  /\ TaskOf(c, 2).req >= TaskOf(c, 2).trig

C3_BurstOnlyLastGenerates ==
  \A c \in Convs :
    /\ burst[c] => \A t \in TasksOf(c) : tasks[t].gens > 0 => t = LastTask(c)
    /\ Cardinality({t \in TasksOf(c) : tasks[t].pc = "generate"}) <= 1

\* C4: a task cancelled while in its debounce sleep never builds a request,
\* never calls generate and never sends a message or adds a reaction.
C4_CancelledInSleepDoesNothing ==
  \A t \in TaskIds :
    tasks[t].cancelledAt = "sleep" =>
      /\ tasks[t].pc \in {"sleep", "done"}
      /\ tasks[t].req = 0
      /\ tasks[t].gens = 0
      /\ tasks[t].resp = "none"
      /\ tasks[t].sent = "none"
      /\ ~tasks[t].reacted

C4_Witness ==
  \E t \in TaskIds : tasks[t].cancelledAt = "sleep" /\ tasks[t].pc = "done"

\* C5 as stated: cancellation interrupts only at the debounce sleep, so a
\* task cancelled after it started its provider call still sees that call run
\* to completion.
C5_ProviderCallRunsToCompletion ==
  \A t \in TaskIds :
    (tasks[t].cancelledAt = "generate" /\ tasks[t].pc = "done") =>
      tasks[t].resp # "none"

\* C5 amended: cancellation interrupts the task at the await it is suspended
\* on, the provider call included: a task cancelled after it started its
\* provider call never receives the call's result and delivers nothing.
C5_CancelInterruptsProviderCall ==
  \A t \in TaskIds :
    tasks[t].cancelledAt = "generate" =>
      /\ tasks[t].pc \in {"generate", "done"}
      /\ tasks[t].gens = 1
      /\ tasks[t].resp = "none"
      /\ tasks[t].sent = "none"
      /\ ~tasks[t].reacted

C5_Witness ==
  \E t \in TaskIds : tasks[t].cancelledAt = "generate" /\ tasks[t].pc = "done"

\* C6: a task superseded by a newer trigger exits with no user-visible
\* effect: from then on it sends no chunk and adds no reaction, and it never
\* leaves a reply delivered only in part.
C6_SupersededNoVisibleEffect ==
  [][\A t \in TaskIds :
       tasks[t].superseded =>
         /\ tasks'[t].sent = tasks[t].sent
         /\ tasks'[t].reacted = tasks[t].reacted
         /\ tasks'[t].sent # "part"]_vars

\* ------------------------------------------------------------ C7 .. C10
ToolCapable == {k \in 1..Len(calls) : calls[k].kind = "tools"}

\* C7: with tools active, one generate call makes at most 5 tool-capable
\* provider calls; when the 5th round still returns tool calls, exactly one
\* more call follows, single-shot and without any tool definition, so at most
\* 6 provider calls are made.
C7_FallbackWithoutTools ==
  ActiveTools(backend, config) # <<>> =>
    /\ Cardinality(ToolCapable) <= 5
    /\ Len(calls) <= 6
    /\ \A k \in 1..Len(calls) :
         calls[k].kind = "single" => (k = 6 /\ calls[k].tools = <<>>)
    /\ (round = 5 /\ Len(returned) = 5 /\ gpc \in {"final_call", "returned"}) =>
         (Len(calls) = 6 /\ calls[6].kind = "single")

\* The tool executions of round r, in the order they were made
ExecutedIn(r) == SelectSeq(executed, LAMBDA e : e.round = r)

\* The results carried by the tool-result entries of a message list
ToolResultsOf(msgs) ==
  LET S == SelectSeq(msgs, LAMBDA m : m.kind = "tool_result")
  IN [i \in 1..Len(S) |-> S[i].result]

\* What round r appended to the list: the entries the next call was handed
\* beyond those the call of round r was handed.
AppendedBy(r) ==
  SubSeq(calls[r + 1].given, Len(calls[r].given) + 1, Len(calls[r + 1].given))

\* C8: the tool calls of a round are executed in the order the provider
\* returned them, and the provider call after round r is made only when every
\* call of round r has been executed and the results are in the message list
\* handed to that call, in the same order.
C8_ToolCallsInOrder ==
  \A r \in 1..Len(returned) :
    LET E == ExecutedIn(r)
    IN /\ Len(E) <= Len(returned[r])
       /\ \A i \in 1..Len(E) : E[i].call = returned[r][i]
       /\ Len(calls) > r =>
            /\ Len(E) = Len(returned[r])
            /\ ToolResultsOf(AppendedBy(r)) = [i \in 1..Len(E) |-> E[i].result]
            /\ ToolResultsOf(SubSeq(calls[r + 1].msgs,
                                    Len(calls[r + 1].msgs) - Len(AppendedBy(r)) + 1,
                                    Len(calls[r + 1].msgs)))
                 = [i \in 1..Len(E) |-> E[i].result]

\* A round of two calls with different results was executed and the next
\* provider call was made.
C8_Witness ==
  /\ Len(calls) >= 3
  /\ Len(returned[2]) >= 2
  /\ LET E == ExecutedIn(2)
     IN Len(E) >= 2 /\ E[1].result # E[2].result /\ E[1].result.kind = "ok"

\* C9: for every adapter the attachment data of a request is in the payload
\* of the first provider call only; no later tool round and no fallback call
\* carries attachment data.
C9_AttachmentsFirstRoundOnly ==
  \A k \in 2..Len(calls) : calls[k].att = 0

\* The cases the executor answers with an error payload
ErrorCase(call, store, env) ==
  \/ call.name \notin KnownTools
  \/ ~call.args.isdict
  \/ call.name = "web_search" /\ call.args.query \in {Missing, ""}
  \/ call.name = "remember_user"
       /\ (call.args.user_name \in {Missing, ""} \/ call.args.fact \in {Missing, ""})
  \/ call.name = "remember_channel" /\ call.args.memory \in {Missing, ""}
  \/ call.name \in {"remember_user", "remember_channel"} /\ ~store
  \/ call.name \in {"remember_user", "remember_channel"} /\ env.fault
       /\ Dispatch(call.name, call.args, store, request.participants, env).kind = "raise"

\* C10: execute returns a string for every tool name and argument value and
\* never raises; an unknown name, a missing or empty argument, a disabled
\* store or an exception inside the tool gives an error payload, and the loop
\* goes on to the next provider call with that payload as the tool's result.
C10_ExecuteNeverRaises ==
  /\ gpc # "raised"
  /\ \A i \in 1..Len(executed) :
       LET e == executed[i]
       IN /\ e.result.kind \in {"ok", "error"}
          /\ ErrorCase(e.call, config.memory, toolenv) => e.result.kind = "error"
  /\ (gpc # "exec" /\ Len(returned) = 1 /\ Len(returned[1]) = 1) =>
       /\ gpc = "tools_call"
       /\ Len(executed) = 1
       /\ Len(calls) = 2
       /\ ToolResultsOf(messages) = <<executed[1].result>>
       /\ ToolResultsOf(calls[2].msgs) = <<executed[1].result>>

\* An exception inside a tool came back as an error payload and the loop went on.
C10_Witness ==
  /\ gpc = "tools_call"
  /\ Len(executed) = 1
  /\ Dispatch(executed[1].call.name, executed[1].call.args, config.memory,
              request.participants, toolenv).kind = "raise"
  /\ executed[1].result.kind = "error"
  /\ ToolResultsOf(calls[2].msgs) = <<executed[1].result>>

\* ----------------------------------------------------------- C11 .. C13
\* C11: generate returns a string and never raises past its own boundary: an
\* error raised by the adapter's single-shot or tool-capable call is absorbed
\* and does not reach the caller of generate.
C11_GenerateNeverRaises == gpc # "raised"

\* The tasks of conversation c that ended in the except Exception handler
FailedIn(c) == {t \in TasksOf(c) : tasks[t].err}

\* C12: an error raised by build_request, generate or delivery inside a task
\* stays in the task: the task ends, its pending entry is gone, and a later
\* qualifying trigger of the conversation gets a new task, recorded as
\* pending and free to run.
C12_ErrorsStayInTask ==
  /\ [](\A t \in TaskIds :
          tasks[t].err => (tasks[t].pc = "done" /\ pending[tasks[t].conv] # t))
  /\ [][\A c \in Convs :
          (FailedIn(c) # {} /\ history'[c] = history[c] + 1) =>
            /\ pending'[c] \notin {0, pending[c]}
            /\ tasks[pending'[c]].pc = "none"
            /\ tasks'[pending'[c]].pc = "new"
            /\ ~tasks'[pending'[c]].cancel
            /\ \A t \in FailedIn(c) : tasks'[t] = tasks[t]]_vars

\* A task failed, and the task of a later trigger of the same conversation
\* delivered its whole reply.
C12_Witness ==
  \E t \in TaskIds, u \in TaskIds :
    /\ t < u /\ tasks[t].conv = tasks[u].conv
    /\ tasks[t].err /\ tasks[t].pc = "done" /\ ~tasks[t].cancel
    /\ tasks[u].pc = "done" /\ tasks[u].sent = "all"

\* C13: when the provider call of a debounced response fails, the trigger
\* path puts the failure-marker reaction on the triggering message.
C13_FailureMarkerOnProviderError ==
  \A t \in TaskIds :
    (tasks[t].resp = "error" /\ tasks[t].pc = "done") => tasks[t].marked

\* ----------------------------------------------------------- C14
\* C14: for an adapter that declares native search, the tool set handed to
\* the tool loop never holds the generic web_search definition, whatever the
\* web-search and memory flags are.
C14_NoGenericSearchWithNative ==
  HasNativeSearch(backend) =>
    \A k \in 1..Len(calls) :
      calls[k].kind = "tools" =>
        \A i \in 1..Len(calls[k].tools) :
          ~(calls[k].tools[i].type = "function" /\ calls[k].tools[i].name = "web_search")

\* ----------------------------------------------------------- C15, C16
Canned == <<Msg("user", "text", SPONTANEOUS_PROMPT)>>

\* The number of assistant turns a sequence begins with
RECURSIVE LeadingAssistant(_)
LeadingAssistant(msgs) ==
  IF msgs = <<>> \/ Head(msgs).role # "assistant" THEN 0
  ELSE 1 + LeadingAssistant(Tail(msgs))

\* The sequence without its leading assistant turns
AfterLeading(msgs) == SubSeq(msgs, LeadingAssistant(msgs) + 1, Len(msgs))

IsText(m) == m.kind = "text"

\* A sequence read turn by turn and, inside a plain-text turn, line by line:
\* the role with each line, or the structured turn as it is.
RECURSIVE Unfold(_)
Unfold(msgs) ==
  IF msgs = <<>> THEN <<>>
  ELSE LET m == Head(msgs)
       IN (IF IsText(m)
           THEN [i \in 1..Len(m.text) |-> <<m.role, m.text[i]>>]
           ELSE <<m>>)
          \o Unfold(Tail(msgs))

\* C15: the normalized sequence begins with a user turn or is the single
\* canned spontaneous turn; the leading assistant turns are gone and what
\* follows them keeps its order.
C15_NormalizedStartsWithUser ==
  norm.pc = "done" =>
    LET out == norm.normalized
        rest == AfterLeading(norm.messages)
    IN /\ out # <<>>
       /\ out[1].role = "user" \/ out = Canned
       /\ rest = <<>> => out = Canned
       /\ rest # <<>> => Unfold(out) = Unfold(rest)

\* Leading assistant turns were dropped and two or more turns remain.
C15_Witness ==
  /\ norm.pc = "done"
  /\ LeadingAssistant(norm.messages) >= 1
  /\ Len(norm.normalized) >= 2
  /\ norm.normalized[1].role = "user"

\* The turns of msgs that are structured, in order
Structured(msgs) == SelectSeq(msgs, LAMBDA m : ~IsText(m))

\* The number of places where two neighbours are same-role plain-text turns
Mergeable(msgs) ==
  Cardinality({i \in 1..Len(msgs) - 1 :
                 /\ msgs[i].role = msgs[i + 1].role
                 /\ IsText(msgs[i]) /\ IsText(msgs[i + 1])})

\* C16: every run of adjacent same-role plain-text turns becomes one turn,
\* its text their texts joined by newlines in order; a structured turn is
\* never merged and stays a turn of its own, unchanged.
C16_MergesAdjacentPlainText ==
  (norm.pc = "done" /\ AfterLeading(norm.messages) # <<>>) =>
    LET out == norm.normalized
        rest == AfterLeading(norm.messages)
    IN /\ Mergeable(out) = 0
       /\ Len(out) = Len(rest) - Mergeable(rest)
       /\ Structured(out) = Structured(rest)
       /\ \A i \in 1..Len(out) :
            IsText(out[i]) =>
              \E a \in 1..Len(rest), b \in 1..Len(rest) :
                /\ a <= b
                /\ \A j \in a..b : IsText(rest[j]) /\ rest[j].role = out[i].role
                /\ Unfold(<<out[i]>>) = Unfold(SubSeq(rest, a, b))

\* Two plain-text turns were merged next to a structured turn that was kept.
C16_Witness ==
  /\ norm.pc = "done"
  /\ Mergeable(AfterLeading(norm.messages)) >= 1
  /\ Structured(norm.normalized) # <<>>
  /\ Len(norm.normalized) = 2

\* ----------------------------------------------------------- C17 .. C20
\* How often position pos is in seq
Occurrences(seq, pos) == Cardinality({i \in 1..Len(seq) : seq[i] = pos})

\* How many entries of seq have text
WithText(seq, text) == Cardinality({i \in 1..Len(seq) : seq[i].text = text})

\* The messages get_sampled_messages returned
Returned == [i \in 1..Len(sampler.result) |-> message_store[sampler.result[i]]]

\* C17: get_sampled_messages(K) returns at most K messages, and exactly K
\* whenever the corpus holds at least K.
C17_SampleSize ==
  sampler.pc = "done" =>
    /\ Len(sampler.result) <= sampler.count
    /\ Len(message_store) >= sampler.count => Len(sampler.result) = sampler.count

\* The per-file draws took more than K (fewer slots than files) and the
\* result was trimmed to K.
C17_Witness ==
  /\ sampler.pc = "done"
  /\ sampler.count < Len(message_store)
  /\ Len(sampler.sampled_messages) > sampler.count
  /\ Len(sampler.result) = sampler.count

\* C18: for K >= N the result is a permutation of the whole corpus: every
\* entry as often as the corpus holds it and nothing else.
C18_AllWhenCountCoversCorpus ==
  (sampler.pc = "done" /\ sampler.count >= Len(message_store)) =>
    /\ Len(sampler.result) = Len(message_store)
    /\ \A pos \in 1..Len(message_store) : Occurrences(sampler.result, pos) = 1
    /\ \A text \in {"x", "y"} : WithText(Returned, text) = WithText(message_store, text)

\* The whole corpus, holding one text twice, came back in another order.
C18_Witness ==
  /\ sampler.pc = "done"
  /\ sampler.count >= Len(message_store)
  /\ Len(message_store) >= 3
  /\ WithText(message_store, "x") = 2
  /\ sampler.result # AllPositions(message_store)

\* The positions of the result that come from path
FromFile(path) ==
  {sampler.result[i] : i \in {j \in 1..Len(sampler.result) :
                                message_store[sampler.result[j]].path = path}}

\* C19: for K < N and P files, every file contributes at least
\* min(its size, K div P) of its own entries, whatever the draws are.
C19_EveryPartitionContributes ==
  (sampler.pc = "done" /\ sampler.count < Len(message_store)) =>
    LET P == Len(FilesOf(message_store))
    IN \A path \in {message_store[i].path : i \in 1..Len(message_store)} :
         Cardinality(FromFile(path))
           >= Min(Len(ByFile(message_store, path)), sampler.count \div P)

\* Two files, at least one entry due from each, and a file smaller than the
\* other.
C19_Witness ==
  /\ sampler.pc = "done"
  /\ sampler.count < Len(message_store)
  /\ Len(FilesOf(message_store)) >= 2
  /\ sampler.count \div Len(FilesOf(message_store)) >= 1
  /\ \E path \in Paths : Len(ByFile(message_store, path)) = 1
  /\ sampler.filled >= 1

\* C20: when the per-file draws fall short of K, the fill takes only
\* positions not yet selected: no corpus position is in the result twice.
C20_FillWithoutRepeats ==
  (sampler.pc = "done" /\ sampler.count < Len(message_store)) =>
    \A pos \in 1..Len(message_store) : Occurrences(sampler.result, pos) <= 1

\* ----------------------------------------------------------- C26 .. C30
\* A provider text without its leading and trailing whitespace; no text
\* counts as the empty string.
Trimmed(text) ==
  IF text \in {NoneText, ""} THEN "" ELSE IF text = " hi " THEN "hi" ELSE text

\* C26: with no tools active, generate makes exactly one single-shot provider
\* call and no tool-capable call, and returns that call's text trimmed.
C26_NoToolsSingleShot ==
  ActiveTools(backend, config) = <<>> =>
    /\ \A k \in 1..Len(calls) : calls[k].kind = "single"
    /\ Len(calls) <= 1
    /\ gpc \in {"single_call", "returned", "raised"} => Len(calls) = 1
    /\ gpc = "returned" =>
         /\ response.kind = "single"
         /\ result = Trimmed(response.text)

\* Without tools, a text with surrounding blanks came back trimmed.
C26_Witness ==
  /\ ActiveTools(backend, config) = <<>>
  /\ gpc = "returned"
  /\ Len(calls) = 1
  /\ response.text = " hi "
  /\ result = "hi"

\* C27: the sequence generate hands to the adapter is the request's context
\* in order and then exactly one user turn: the prompt if it is non-empty, an
\* empty-content turn if there are attachments, the canned prompt otherwise.
C27_ContextThenTrigger ==
  Len(calls) >= 1 =>
    LET given == calls[1].given
        trigger == given[Len(given)]
    IN /\ Len(given) = Len(request.context) + 1
       /\ SubSeq(given, 1, Len(given) - 1) = request.context
       /\ trigger.role = "user" /\ trigger.kind = "text" /\ trigger.images = 0
       /\ request.prompt # <<"">> => trigger.text = request.prompt
       /\ (request.prompt = <<"">> /\ request.attachments > 0) => trigger.text = <<"">>
       /\ (request.prompt = <<"">> /\ request.attachments = 0) =>
            trigger.text = <<"Say something in the chat.">>

\* A request with context and neither prompt nor attachment got the canned
\* trigger.
C27_Witness ==
  /\ Len(calls) >= 1
  /\ request.context # <<>>
  /\ request.prompt = <<"">>
  /\ request.attachments = 0
  /\ calls[1].given[Len(calls[1].given)].text = SPONTANEOUS_PROMPT

\* The phase of a task: Idle before it is created and after it ended, Waiting
\* up to the end of its debounce sleep, Running from build_request on.
Phase(rec) ==
  IF rec.pc \in {"none", "done"} THEN "Idle"
  ELSE IF rec.pc \in {"new", "sleep"} THEN "Waiting"
  ELSE "Running"

\* What C28 says of every task in every step, apart from the cause of
\* Running -> Idle
TaskMachineStep(t) ==
  LET a == Phase(tasks[t])
      b == Phase(tasks'[t])
  IN /\ a # b =>
          \/ a = "Idle" /\ b = "Waiting" /\ tasks[t].pc = "none"
          \/ a = "Waiting" /\ b = "Running" /\ tasks[t].pc = "sleep" /\ ~tasks[t].cancel
          \/ a = "Waiting" /\ b = "Idle" /\ (tasks[t].cancel \/ tasks'[t].err)
          \/ a = "Running" /\ b = "Idle"
     /\ tasks[t].pc = "done" => tasks'[t].pc = "done"
     /\ tasks'[t].gens <= 1
     /\ tasks'[t].gens # tasks[t].gens => (a = "Running" /\ tasks[t].pc = "build")

\* C28 as stated: a task goes Waiting -> Running when its sleep completed,
\* Waiting -> Idle when cancelled and Running -> Idle on completion or error,
\* and takes no other transition; it calls generate at most once, after its
\* sleep, and never returns to Waiting.
C28_OnlyListedTransitions ==
  [][\A t \in TaskIds :
       /\ TaskMachineStep(t)
       /\ (Phase(tasks[t]) = "Waiting" /\ Phase(tasks'[t]) = "Idle") => tasks[t].cancel
       /\ (Phase(tasks[t]) = "Running" /\ Phase(tasks'[t]) = "Idle") => ~tasks[t].cancel]_vars

\* C28, amended: Running -> Idle is also taken on cancellation, and Waiting ->
\* Idle also when entering the typing indicator raises; no other transition
\* exists, generate is called at most once, after the sleep, and a task never
\* returns to Waiting.
C28_TaskStateMachine == [][\A t \in TaskIds : TaskMachineStep(t)]_vars

\* A task was cancelled while Running, between two chunks of its reply.
C28_Witness ==
  \E t \in TaskIds :
    /\ tasks[t].pc = "done"
    /\ tasks[t].cancelledAt = "send"
    /\ tasks[t].gens = 1

\* The tool calls the rounds so far returned
RECURSIVE CallsReturned(_)
CallsReturned(rs) ==
  IF rs = <<>> THEN 0 ELSE Len(Head(rs)) + CallsReturned(Tail(rs))

\* C29: the first tool round whose response has no tool calls ends the
\* generation: its text trimmed, or "" if it has none, is the result, and no
\* provider call and no tool execution comes after it.
C29_NoToolCallsEndsLoop ==
  /\ (response.kind = "tools" /\ response.n = 0) =>
       /\ gpc = "returned"
       /\ result = Trimmed(response.text)
       /\ Len(calls) = Len(returned) + 1
       /\ \A k \in 1..Len(calls) : calls[k].kind = "tools"
       /\ Len(executed) = CallsReturned(returned)
  /\ \A r \in 1..Len(returned) : returned[r] # <<>>

\* The third round had no tool calls and no text: the result is "".
C29_Witness ==
  /\ Len(calls) = 3
  /\ response.kind = "tools" /\ response.n = 0
  /\ response.text = NoneText
  /\ result = ""
  /\ gpc = "returned"

\* C30: the tool calls an adapter parsed from one response carry pairwise
\* different identifiers, also when two of them call the same tool.
C30_UniqueToolCallIds ==
  \A r \in 1..Len(returned) :
    \A i \in 1..Len(returned[r]), j \in 1..Len(returned[r]) :
      i # j => returned[r][i].id # returned[r][j].id

\* C21: every chunk that chunk_response returns is non-empty and no longer than
\* the limit, and the chunks in order are the text with nothing but whitespace
\* left out, at the split points and at the two ends; a run of letters
\* without spaces or sentence ends gives as many chunks as the limit needs
\* (three for a run of two limits and a bit).
RECURSIVE Rebuilds(_, _)
Rebuilds(text, chunks) ==
  LET rest == LStrip(text)
  IN IF chunks = <<>> THEN rest = <<>>
     ELSE LET c == Head(chunks)
          IN /\ Len(rest) >= Len(c)
             /\ SubSeq(rest, 1, Len(c)) = c
             /\ Rebuilds(SubSeq(rest, Len(c) + 1, Len(rest)), Tail(chunks))

C21_ChunksRebuildText ==
  chunker.pc = "done" =>
    /\ \A i \in 1..Len(chunker.chunks) :
         chunker.chunks[i] # <<>> /\ Len(chunker.chunks[i]) <= ChunkLimit
    /\ Rebuilds(chunker.text, chunker.chunks)
    /\ (\A i \in 1..Len(chunker.text) : chunker.text[i] = "a") =>
         Len(chunker.chunks) = (Len(chunker.text) + ChunkLimit - 1) \div ChunkLimit

C21_Witness ==
  /\ chunker.pc = "done"
  /\ Len(chunker.text) = 2 * ChunkLimit + 1
  /\ \A i \in 1..Len(chunker.text) : chunker.text[i] = "a"
  /\ Len(chunker.chunks) = 3

\* C22: the clean text that extract_reactions returns holds no reaction
\* marker: the pattern matches nowhere in it.
C22_NoMarkerLeft ==
  extractor.pc = "done" =>
    \A i \in 1..Len(extractor.clean) : MatchEnd(extractor.clean, i) = 0

\* C23: no task calls backend.generate while the corpus is empty.
C23_NoGenerateOnEmptyCorpus ==
  [][\A t \in TaskIds : tasks'[t].gens > tasks[t].gens => message_store # <<>>]_vars

\* C24: a user holds at most MAX_USER_FACTS facts and a channel at most
\* MAX_CHANNEL_MEMORIES memories, whatever adds, removes and clears were made;
\* the list is in insertion order, and as long as nothing was removed it is
\* exactly the most recent adds since the last clear, up to the cap. An add to
\* a full list evicts the oldest entry and appends the new one.
C24_CapsKeepMostRecent ==
  /\ [](memory_file.watch # "none" =>
         LET cap == MemCap(memory_file.watch)
             items == memory_file.items
             oldest == Max(memory_file.floor, memory_file.added - cap)
         IN /\ Len(items) <= cap
            /\ \A i \in 1..Len(items) - 1 : items[i] < items[i + 1]
            /\ \A i \in 1..Len(items) :
                 items[i] > memory_file.floor /\ items[i] <= memory_file.added
            /\ memory_file.removed = 0 =>
                 items = [i \in 1..memory_file.added - oldest |-> oldest + i])
  /\ [][(/\ memory_file'.added > memory_file.added
          /\ Len(memory_file.items) = MemCap(memory_file.watch)) =>
           memory_file'.items = Append(Tail(memory_file.items), memory_file'.added)]_vars

C24_Witness ==
  /\ memory_file.watch = "user"
  /\ memory_file.added > MAX_USER_FACTS
  /\ Len(memory_file.items) = MAX_USER_FACTS
  /\ memory_file.items[1] = memory_file.added - MAX_USER_FACTS + 1

\* C25: after add_messages the store counts as many messages more as the
\* call returned.
C25_AddReturnsCountAdded ==
  store_call.op = "add" =>
    Len(message_store) = Len(store_call.before) + store_call.ret

\* C31: a tool execution leaves the message list as it was and puts two
\* entries behind it: the tool call, then its result.
C31_AppendsCallThenResult ==
  [][Len(executed') > Len(executed) =>
       LET e == executed'[Len(executed')]
           n == Len(messages)
       IN /\ Len(messages') = n + 2
          /\ SubSeq(messages', 1, n) = messages
          /\ messages'[n + 1].kind = "tool_use"
          /\ messages'[n + 1].call = e.call
          /\ messages'[n + 2].kind = "tool_result"
          /\ messages'[n + 2].result = e.result]_vars

\* C32: the first chunk of a paragraph longer than the limit ends after the
\* last sentence end followed by a space before the limit when there is one,
\* else at the last space before the limit when there is one, else at the
\* limit.
SplitBeforeLimit(paragraph) ==
  LET ends == {RFind(paragraph, <<p, " ">>, ChunkLimit) : p \in {".", "!", "?"}}
      sentence == CHOOSE i \in ends : \A j \in ends : j <= i
      space == RFind(paragraph, <<" ">>, ChunkLimit)
  IN IF sentence >= 0 THEN sentence + 1
     ELSE IF space > 0 THEN space
     ELSE ChunkLimit

C32_SplitPriority ==
  (/\ chunker.pc = "done"
   /\ Len(chunker.text) > ChunkLimit
   /\ chunker.text = StripStr(chunker.text)
   /\ \A i \in 1..Len(chunker.text) : chunker.text[i] # "\n") =>
     chunker.chunks[1] =
       StripStr(SubSeq(chunker.text, 1, SplitBeforeLimit(chunker.text)))

\* C33: the chunks are those of the non-blank paragraphs between the newlines
\* of the text, paragraph after paragraph: a paragraph that fits the limit
\* gives one chunk, the trimmed paragraph, a longer one gives two chunks or
\* more that rebuild it; no chunk holds a newline.
NonBlankParagraphs(text) ==
  LET lines == SplitLines(text)
  IN SelectSeq([i \in 1..Len(lines) |-> StripStr(lines[i])], LAMBDA p : p # <<>>)

RECURSIVE ChunksOfParagraphs(_, _)
ChunksOfParagraphs(paragraphs, chunks) ==
  IF paragraphs = <<>> THEN chunks = <<>>
  ELSE LET p == Head(paragraphs)
       IN IF Len(p) <= ChunkLimit
          THEN /\ chunks # <<>>
               /\ Head(chunks) = p
               /\ ChunksOfParagraphs(Tail(paragraphs), Tail(chunks))
          ELSE \E k \in 2..Len(chunks) :
                 /\ Rebuilds(p, SubSeq(chunks, 1, k))
                 /\ ChunksOfParagraphs(Tail(paragraphs), SubSeq(chunks, k + 1, Len(chunks)))

C33_OneChunkPerParagraph ==
  chunker.pc = "done" =>
    /\ \A i \in 1..Len(chunker.chunks) :
         \A j \in 1..Len(chunker.chunks[i]) : chunker.chunks[i][j] # "\n"
    /\ ChunksOfParagraphs(NonBlankParagraphs(chunker.text), chunker.chunks)

C33_Witness ==
  /\ chunker.pc = "done"
  /\ chunker.text = <<" ", "a", "\n", "\n", "!", " ">>
  /\ chunker.chunks = <<<<"a">>, <<"!">>>>

\* C34: once every task of a conversation has finished, failed or been
\* cancelled, the pending map holds no entry for the conversation.
C34_QuiescentPendingEmpty ==
  \A c \in Convs :
    (\A t \in TasksOf(c) : tasks[t].pc = "done") => pending[c] = 0

\* Both tasks of one conversation are done: the first was cancelled before
\* its first step and never ran its finally clause, the second finished.
C34_Witness ==
  \E c \in Convs :
    /\ Cardinality(TasksOf(c)) = 2
    /\ \A t \in TasksOf(c) : tasks[t].pc = "done"
    /\ \E t \in TasksOf(c) : tasks[t].cancelledAt = "new"
    /\ \E t \in TasksOf(c) : tasks[t].sent = "all"
    /\ pending[c] = 0

\* C36: while a task is live (waiting or running, not cancelled) the pending
\* map holds it under its conversation identifier: the cleanup of an older
\* task never removes the entry of the task that replaced it.
C36_LiveTaskIsPending ==
  \A t \in TaskIds : Live(t) => pending[tasks[t].conv] = t

\* C37: a trigger in one conversation cancels no task of another conversation
\* and leaves the pending entry of every other conversation as it was.
C37_ConversationsIndependent ==
  [][\A c \in Convs :
       history'[c] = history[c] + 1 =>
         /\ \A d \in Convs \ {c} : pending'[d] = pending[d]
         /\ \A t \in TaskIds :
              (tasks[t].pc # "none" /\ tasks[t].conv # c) => tasks'[t] = tasks[t]]_vars

\* Two conversations have a live task each, recorded as pending, the second
\* created while the first was in its debounce sleep.
C37_Witness ==
  \E t \in TaskIds, u \in TaskIds :
    /\ t < u
    /\ tasks[t].conv # tasks[u].conv
    /\ tasks[t].pc = "sleep" /\ tasks[u].pc = "new"
    /\ Live(t) /\ Live(u)
    /\ pending[tasks[t].conv] = t /\ pending[tasks[u].conv] = u

\* C38: on runs where the platform and provider calls return, the task of a
\* trigger either is followed by a further trigger of its conversation or
\* eventually gets through its sleep and calls generate.
C38_LastTriggerGenerates ==
  \A t \in TaskIds :
    (tasks[t].pc # "none") ~>
      (tasks[t].pc # "none" /\ (tasks[t].gens >= 1 \/ LastTask(tasks[t].conv) # t))

\* The first task of a conversation was cancelled in its sleep by the second
\* trigger and has ended without a generation; the second task has called
\* generate.
C38_Witness ==
  \E t \in TaskIds :
    /\ tasks[t].pc = "generate" /\ tasks[t].gens = 1
    /\ LastTask(tasks[t].conv) = t
    /\ \E u \in TasksOf(tasks[t].conv) :
         u < t /\ tasks[u].pc = "done" /\ tasks[u].gens = 0

\* C35: send_chunked sends the chunks in chunk order, each send right after
\* the typing indicator of its chunk; reactions go to the react target only,
\* after the last chunk was sent; when the call returns, every reaction was
\* attempted in order, whether or not an earlier one failed.
OpsOf(log, op) ==
  LET S == SelectSeq(log, LAMBDA e : e.op = op)
  IN [k \in 1..Len(S) |-> S[k].arg]

C35_ChunksThenReactions ==
  LET log == sender.log
      sent == OpsOf(log, "send")
      reacted == OpsOf(log, "react")
  IN /\ sent = [k \in 1..Len(sent) |-> k]
     /\ \A k \in 1..Len(log) :
          log[k].op = "send" =>
            k > 1 /\ log[k - 1].op = "typing" /\ log[k - 1].arg = log[k].arg
     /\ \A k \in 1..Len(log) :
          log[k].op = "react" =>
            /\ log[k].on = "target" /\ sender.target
            /\ Len(OpsOf(SubSeq(log, 1, k), "send")) = sender.chunks
     /\ sender.pc = "done" =>
          /\ Len(sent) = sender.chunks
          /\ reacted = [k \in 1..(IF sender.target THEN sender.reactions ELSE 0) |-> k]

\* Two chunks went out, the first reaction failed, the second was added.
C35_Witness ==
  /\ sender.pc = "done"
  /\ sender.chunks = 2 /\ sender.reactions = 2 /\ sender.target
  /\ Len(sender.log) = 6
  /\ ~sender.log[5].ok /\ sender.log[6].ok

\* C39: generate never changes the request it was given. The context
\* entries are the objects the working list shares with the request: at
\* every point of a generate call (single-shot and tool path, every
\* adapter) the working list is longer than the context, its first entries
\* and the first entries of every list handed to a provider call are the
\* context entries as they were given, and no step assigns to the request
\* (context, prompt, attachments).
C39_RequestUnchanged ==
  /\ [](gpc \notin {"idle", "off"} =>
          /\ Len(messages) > Len(request.context)
          /\ SubSeq(messages, 1, Len(request.context)) = request.context
          /\ \A k \in 1..Len(calls) :
               /\ Len(calls[k].given) > Len(request.context)
               /\ SubSeq(calls[k].given, 1, Len(request.context)) = request.context)
  /\ [][request' = request]_vars

\* A finished tool-path call of the adapter that writes to a shared entry,
\* with a non-empty context and attachments.
C39_Witness ==
  /\ gpc = "returned"
  /\ backend = "ollama"
  /\ request.context # <<>>
  /\ request.attachments > 0
  /\ Len(calls) >= 2
  /\ messages[Len(request.context) + 1].images > 0

\* C40: role normalization is idempotent: normalizing the normalized
\* sequence returns an equal sequence; and when every turn of the input has
\* plain-text content, the normalized sequence starts with a user turn and
\* no two adjacent turns have the same role.
C40_NormalizeIdempotent ==
  norm.pc = "done" =>
    /\ NormalizeMessages(norm.normalized) = norm.normalized
    /\ (\A i \in 1..Len(norm.messages) : norm.messages[i].kind = "text") =>
         /\ norm.normalized # <<>>
         /\ norm.normalized[1].role = "user"
         /\ \A i \in 1..(Len(norm.normalized) - 1) :
              norm.normalized[i].role # norm.normalized[i + 1].role

\* A plain-text input whose same-role turns were merged into a sequence of
\* at least two turns.
C40_Witness ==
  /\ norm.pc = "done"
  /\ \A i \in 1..Len(norm.messages) : norm.messages[i].kind = "text"
  /\ Len(norm.normalized) >= 2
  /\ Len(norm.normalized) < Len(norm.messages)

====
